---- MODULE Spec2Model ----
(***************************************************************************)
(* A model of the NES 6502 core: the address bus (src/src/bus.rs), the CPU *)
(* state, stack, addressing-mode resolver, opcode table and run loop       *)
(* (src/src/cpu6502.rs) and the instruction handlers                       *)
(* (src/src/instructions/*.rs).                                            *)
(*                                                                         *)
(* A CPU value is a record with the fields of `struct CPU` (the bus's      *)
(* internal RAM included, kept sparse: an absent address holds 0).         *)
(* Handlers are operators from an execution context (the CPU record plus   *)
(* the pending panic, if any) to an execution context.                     *)
(*                                                                         *)
(* Four specifications share the variables: Spec is the run loop on a      *)
(* cartridge image, StackSpec calls push_u8/pop_u8/push_u16/pop_u16 on a   *)
(* new CPU, BusSpec calls read_u8/write_u8/read_u16/write_u16 on it, and   *)
(* HandlerSpec calls the instruction handlers and reset on it.             *)
(***************************************************************************)
EXTENDS Integers, Sequences, FiniteSets, TLC

VARIABLES
    cpu,              \* struct CPU: registers, cycles, halted, bus.internal_ram
    rom,              \* bus.rom.prg_rom: length, fill byte and the bytes that differ from it
    overflow_checks,  \* build profile: TRUE = arithmetic overflow panics, FALSE = it wraps
    callback,         \* the closure given to run_with_callback: "noop" (run) or "trace" (main)
    phase,            \* position in run_with_callback: "callback", "fetch" or "panicked"
    fault,            \* payload of the panic that ended the run, NoFault while running
    callbacks,        \* number of callback invocations so far
    instructions,     \* number of loop iterations that went past the callback
    seen,             \* the CPU the last callback invocation was handed
    last,             \* the last loop iteration: pc, opcode, CPU before it, outcome
    prev,             \* the loop iteration before the last one
    start,            \* unit-test harness: the CPU the test began with
    call,             \* unit-test harness: the last call made and what it returned
    pushed,           \* unit-test harness: the values pushed, in order
    popped            \* unit-test harness: the values the pops returned, in order

vars == <<cpu, rom, overflow_checks, callback, phase, fault, callbacks, instructions, seen, last, prev,
          start, call, pushed, popped>>

----------------------------------------------------------------------------
(* Bit operations on naturals: Rust's &, |, ^ and ! on u8/u16.             *)

RECURSIVE BitAnd(_, _)
BitAnd(a, b) ==
    IF a = 0 \/ b = 0 THEN 0
    ELSE ((a % 2) * (b % 2)) + 2 * BitAnd(a \div 2, b \div 2)

RECURSIVE BitOr(_, _)
BitOr(a, b) ==
    IF a = 0 THEN b
    ELSE IF b = 0 THEN a
    ELSE (IF a % 2 = 1 \/ b % 2 = 1 THEN 1 ELSE 0) + 2 * BitOr(a \div 2, b \div 2)

RECURSIVE BitXor(_, _)
BitXor(a, b) ==
    IF a = 0 THEN b
    ELSE IF b = 0 THEN a
    ELSE ((a + b) % 2) + 2 * BitXor(a \div 2, b \div 2)

BitNot8(a) == 255 - a

\* 2^n for the eight flag positions
Pow2(n) == CASE n = 0 -> 1 [] n = 1 -> 2 [] n = 2 -> 4 [] n = 3 -> 8
             [] n = 4 -> 16 [] n = 5 -> 32 [] n = 6 -> 64 [] n = 7 -> 128

\* `x as i8`: the two's-complement reading of a byte
AsI8(x) == IF x >= 128 THEN x - 256 ELSE x

\* u16::from_le_bytes([low, high]) and u16::to_le_bytes(value)
from_le_bytes(low, high) == low + 256 * high
to_le_bytes(value) == [low |-> value % 256, high |-> value \div 256]

----------------------------------------------------------------------------
(* Panics.  A panic payload is the format string and its arguments.        *)

NoFault == [msg |-> "", args |-> <<>>]
Payload(msg, args) == [msg |-> msg, args |-> args]
PPU_TODO == Payload("not yet implemented: PPU is not supported yet", <<>>)
ADD_OVERFLOW == Payload("attempt to add with overflow", <<>>)

None == -1

CpuFields == {"program_counter", "stack_pointer", "accumulator", "x_register",
              "y_register", "status_register", "cycles", "halted", "internal_ram"}

\* an execution context: the CPU plus the panic being unwound (NoFault: none)
Ctx(c) == [f \in CpuFields \cup {"panic"} |-> IF f = "panic" THEN NoFault ELSE c[f]]
CpuOf(x) == [f \in CpuFields |-> x[f]]
Panicked(x) == x.panic # NoFault
Panic(x, payload) == IF Panicked(x) THEN x ELSE [x EXCEPT !.panic = payload]

----------------------------------------------------------------------------
(* StatusFlag: the bit positions of the status register.                   *)

Carry == 0
Zero == 1
InterruptDisable == 2
DecimalMode == 3
BreakCommand == 4
Unused == 5
Overflow == 6
Negative == 7

Bit(byte, n) == (byte \div Pow2(n)) % 2

get_status_flag(x, flag) == BitAnd(x.status_register, Pow2(flag)) # 0

set_status_flag(x, flag, value) ==
    IF value
    THEN [x EXCEPT !.status_register = BitOr(@, Pow2(flag))]
    ELSE [x EXCEPT !.status_register = BitAnd(@, BitNot8(Pow2(flag)))]

----------------------------------------------------------------------------
(* The address bus.                                                        *)

RamAt(ram, i) == IF i \in DOMAIN ram THEN ram[i] ELSE 0

RamSet(ram, i, data) ==
    IF data = 0
    THEN [j \in (DOMAIN ram) \ {i} |-> ram[j]]
    ELSE [j \in (DOMAIN ram) \cup {i} |-> IF j = i THEN data ELSE ram[j]]

PrgRomAt(i) == IF i \in DOMAIN rom.prg_bytes THEN rom.prg_bytes[i] ELSE rom.prg_fill

\* Bus::read_u8 panics (todo!) exactly on the PPU register window
BusReadPanics(addr) == addr >= 8192 /\ addr <= 16383

\* the RAM index without the mirroring
mirrored_addr_unmasked(addr) == addr

\* "let mirrored_addr = addr & 0x07FF"
mirrored_addr(addr) == BitAnd(addr, 2047)

\* the PRG index without the 16 KiB mirror
prg_addr_linear(addr) == addr - 32768

\* "addr -= 0x8000", then the NROM mirror of a 16 KiB image
prg_addr(addr) ==
    IF rom.prg_len = 16384 /\ addr - 32768 >= 16384
    THEN (addr - 32768) % 16384
    ELSE addr - 32768

BusRead(ram, addr) ==
    IF addr <= 8191 THEN RamAt(ram, mirrored_addr(addr))
    ELSE IF addr >= 32768 THEN PrgRomAt(prg_addr(addr))
    ELSE 0

\* CPU::read_u8
read_u8(x, addr) == BusRead(x.internal_ram, addr)

\* a write_u8 that stores every address, cartridge space included
write_u8_everywhere(x, addr, value) ==
    IF Panicked(x) THEN x
    ELSE [x EXCEPT !.internal_ram = RamSet(@, mirrored_addr(addr), value)]

\* CPU::write_u8 -> Bus::write_u8
write_u8(x, addr, value) ==
    IF Panicked(x) THEN x
    ELSE IF addr <= 8191
         THEN [x EXCEPT !.internal_ram = RamSet(@, mirrored_addr(addr), value)]
    ELSE IF addr <= 16383 THEN Panic(x, PPU_TODO)
    ELSE x

\* CPU::read_u16: the panic, if any, of reading the word at addr
ReadU16Panic(addr) ==
    IF BusReadPanics(addr) THEN PPU_TODO
    ELSE IF addr + 1 > 65535 /\ overflow_checks THEN ADD_OVERFLOW
    ELSE IF BusReadPanics((addr + 1) % 65536) THEN PPU_TODO
    ELSE NoFault

read_u16(x, addr) == from_le_bytes(read_u8(x, addr), read_u8(x, (addr + 1) % 65536))

\* a write_u16 that stores the high byte first
write_u16_big_endian(x, addr, value) ==
    IF addr + 1 > 65535 /\ overflow_checks
    THEN Panic(write_u8(x, addr, to_le_bytes(value).high), ADD_OVERFLOW)
    ELSE write_u8(write_u8(x, addr, to_le_bytes(value).high),
                  (addr + 1) % 65536, to_le_bytes(value).low)

\* CPU::write_u16: low byte at addr, high byte at addr + 1
write_u16(x, addr, value) ==
    IF addr + 1 > 65535 /\ overflow_checks
    THEN Panic(write_u8(x, addr, to_le_bytes(value).low), ADD_OVERFLOW)
    ELSE write_u8(write_u8(x, addr, to_le_bytes(value).low),
                  (addr + 1) % 65536, to_le_bytes(value).high)

----------------------------------------------------------------------------
(* The stack.                                                              *)

STACK_BASE_ADDRESS == 256
STACK_ADDRESS_DEFAULT_COLD_START == 255
STACK_ADDRESS_DEFAULT_WARM_START == 253
RESET_VECTOR_ADDRESS == 65532

\* the stack address without the page base
stack_addr_zero_page(stack_pointer) == stack_pointer

\* "let stack_addr = Self::STACK_BASE_ADDRESS + self.stack_pointer as u16"
stack_addr(stack_pointer) == STACK_BASE_ADDRESS + stack_pointer

push_u8(x, value) ==
    IF Panicked(x) THEN x
    ELSE [write_u8(x, stack_addr(x.stack_pointer), value)
            EXCEPT !.stack_pointer = (@ + 255) % 256]

\* a push_u16 that pushes the low byte first
push_u16_low_first(x, value) ==
    push_u8(push_u8(x, to_le_bytes(value).low), to_le_bytes(value).high)

push_u16(x, value) ==
    LET b == to_le_bytes(value)
    IN  push_u8(push_u8(x, b.high), b.low)

\* a pop_u8 that reads the slot before moving the stack pointer
pop_u8_read_first(x) ==
    LET sp == (x.stack_pointer + 1) % 256
    IN  [ctx |-> [x EXCEPT !.stack_pointer = sp],
         value |-> read_u8(x, stack_addr(x.stack_pointer))]

\* pop_u8 returns the context after the pop and the byte read
pop_u8(x) ==
    LET sp == (x.stack_pointer + 1) % 256
    IN  [ctx |-> [x EXCEPT !.stack_pointer = sp], value |-> read_u8(x, stack_addr(sp))]

pop_u16(x) ==
    LET low == pop_u8(x)
        high == pop_u8(low.ctx)
    IN  [ctx |-> high.ctx, value |-> from_le_bytes(low.value, high.value)]

\* page_crossed(addr1, addr2)
page_crossed(addr1, addr2) == BitAnd(addr1, 65280) # BitAnd(addr2, 65280)

----------------------------------------------------------------------------
(* The addressing-mode resolver.                                           *)

FirstPanic(ps) ==
    IF \E i \in DOMAIN ps : ps[i] # NoFault
    THEN ps[CHOOSE i \in DOMAIN ps : ps[i] # NoFault /\ \A j \in 1..(i - 1) : ps[j] = NoFault]
    ELSE NoFault

ReadU8Panic(addr) == IF BusReadPanics(addr) THEN PPU_TODO ELSE NoFault

Resolved(a, crossed, p) == [addr |-> a, page_crossed |-> crossed, panic |-> p]

\* a resolver whose zero-page sums and pointer reads run on into page one
get_operand_address_no_zero_page_wrap(x, mode, addr) ==
    CASE mode = "Absolute" ->
            Resolved(read_u16(x, addr), FALSE, ReadU16Panic(addr))
      [] mode = "AbsoluteX" ->
            LET base == read_u16(x, addr)
                final_addr == (base + x.x_register) % 65536
            IN  Resolved(final_addr, page_crossed(base, final_addr), ReadU16Panic(addr))
      [] mode = "AbsoluteY" ->
            LET base == read_u16(x, addr)
                final_addr == (base + x.y_register) % 65536
            IN  Resolved(final_addr, page_crossed(base, final_addr), ReadU16Panic(addr))
      [] mode = "Immediate" -> Resolved(addr, FALSE, NoFault)
      [] mode = "Indirect" ->
            LET ptr == read_u16(x, addr)
                low == read_u8(x, ptr)
                hiaddr == IF BitAnd(ptr, 255) = 255 THEN BitAnd(ptr, 65280) ELSE ptr + 1
                high == read_u8(x, hiaddr)
            IN  Resolved(from_le_bytes(low, high), FALSE,
                         FirstPanic(<<ReadU16Panic(addr), ReadU8Panic(ptr), ReadU8Panic(hiaddr)>>))
      [] mode = "IndirectX" ->
            LET base == read_u8(x, addr)
                ptr == base + x.x_register
                low == read_u8(x, ptr)
                high == read_u8(x, ptr + 1)
            IN  Resolved(from_le_bytes(low, high), FALSE, ReadU8Panic(addr))
      [] mode = "IndirectY" ->
            LET base == read_u8(x, addr)
                low == read_u8(x, base)
                high == read_u8(x, base + 1)
                base_addr == from_le_bytes(low, high)
                final_addr == (base_addr + x.y_register) % 65536
            IN  Resolved(final_addr, page_crossed(base_addr, final_addr), ReadU8Panic(addr))
      [] mode = "Relative" -> Resolved(addr, FALSE, NoFault)
      [] mode = "ZeroPage" -> Resolved(read_u8(x, addr), FALSE, ReadU8Panic(addr))
      [] mode = "ZeroPageX" ->
            Resolved(read_u8(x, addr) + x.x_register, FALSE, ReadU8Panic(addr))
      [] mode = "ZeroPageY" ->
            Resolved(read_u8(x, addr) + x.y_register, FALSE, ReadU8Panic(addr))
      [] OTHER ->
            Resolved(0, FALSE, Payload("No effective address for {:?}", <<mode>>))

\* a resolver whose Indirect mode reads the high byte at ptr + 1 always
get_operand_address_no_page_bug(x, mode, addr) ==
    CASE mode = "Absolute" ->
            Resolved(read_u16(x, addr), FALSE, ReadU16Panic(addr))
      [] mode = "AbsoluteX" ->
            LET base == read_u16(x, addr)
                final_addr == (base + x.x_register) % 65536
            IN  Resolved(final_addr, page_crossed(base, final_addr), ReadU16Panic(addr))
      [] mode = "AbsoluteY" ->
            LET base == read_u16(x, addr)
                final_addr == (base + x.y_register) % 65536
            IN  Resolved(final_addr, page_crossed(base, final_addr), ReadU16Panic(addr))
      [] mode = "Immediate" -> Resolved(addr, FALSE, NoFault)
      [] mode = "Indirect" ->
            LET ptr == read_u16(x, addr)
                low == read_u8(x, ptr)
                hiaddr == (ptr + 1) % 65536
                high == read_u8(x, hiaddr)
            IN  Resolved(from_le_bytes(low, high), FALSE,
                         FirstPanic(<<ReadU16Panic(addr), ReadU8Panic(ptr), ReadU8Panic(hiaddr)>>))
      [] mode = "IndirectX" ->
            LET base == read_u8(x, addr)
                ptr == (base + x.x_register) % 256
                low == read_u8(x, ptr)
                high == read_u8(x, (ptr + 1) % 256)
            IN  Resolved(from_le_bytes(low, high), FALSE, ReadU8Panic(addr))
      [] mode = "IndirectY" ->
            LET base == read_u8(x, addr)
                low == read_u8(x, base)
                high == read_u8(x, (base + 1) % 256)
                base_addr == from_le_bytes(low, high)
                final_addr == (base_addr + x.y_register) % 65536
            IN  Resolved(final_addr, page_crossed(base_addr, final_addr), ReadU8Panic(addr))
      [] mode = "Relative" -> Resolved(addr, FALSE, NoFault)
      [] mode = "ZeroPage" -> Resolved(read_u8(x, addr), FALSE, ReadU8Panic(addr))
      [] mode = "ZeroPageX" ->
            Resolved((read_u8(x, addr) + x.x_register) % 256, FALSE, ReadU8Panic(addr))
      [] mode = "ZeroPageY" ->
            Resolved((read_u8(x, addr) + x.y_register) % 256, FALSE, ReadU8Panic(addr))
      [] OTHER ->
            Resolved(0, FALSE, Payload("No effective address for {:?}", <<mode>>))

\* get_operand_address(mode, addr): the effective address, the page-cross
\* signal, and the panic raised on the way (NoFault: none)
get_operand_address(x, mode, addr) ==
    CASE mode = "Absolute" ->
            Resolved(read_u16(x, addr), FALSE, ReadU16Panic(addr))
      [] mode = "AbsoluteX" ->
            LET base == read_u16(x, addr)
                final_addr == (base + x.x_register) % 65536
            IN  Resolved(final_addr, page_crossed(base, final_addr), ReadU16Panic(addr))
      [] mode = "AbsoluteY" ->
            LET base == read_u16(x, addr)
                final_addr == (base + x.y_register) % 65536
            IN  Resolved(final_addr, page_crossed(base, final_addr), ReadU16Panic(addr))
      [] mode = "Immediate" -> Resolved(addr, FALSE, NoFault)
      [] mode = "Indirect" ->
            LET ptr == read_u16(x, addr)
                low == read_u8(x, ptr)
                hiaddr == IF BitAnd(ptr, 255) = 255 THEN BitAnd(ptr, 65280) ELSE ptr + 1
                high == read_u8(x, hiaddr)
            IN  Resolved(from_le_bytes(low, high), FALSE,
                         FirstPanic(<<ReadU16Panic(addr), ReadU8Panic(ptr), ReadU8Panic(hiaddr)>>))
      [] mode = "IndirectX" ->
            LET base == read_u8(x, addr)
                ptr == (base + x.x_register) % 256
                low == read_u8(x, ptr)
                high == read_u8(x, (ptr + 1) % 256)
            IN  Resolved(from_le_bytes(low, high), FALSE, ReadU8Panic(addr))
      [] mode = "IndirectY" ->
            LET base == read_u8(x, addr)
                low == read_u8(x, base)
                high == read_u8(x, (base + 1) % 256)
                base_addr == from_le_bytes(low, high)
                final_addr == (base_addr + x.y_register) % 65536
            IN  Resolved(final_addr, page_crossed(base_addr, final_addr), ReadU8Panic(addr))
      [] mode = "Relative" -> Resolved(addr, FALSE, NoFault)
      [] mode = "ZeroPage" -> Resolved(read_u8(x, addr), FALSE, ReadU8Panic(addr))
      [] mode = "ZeroPageX" ->
            Resolved((read_u8(x, addr) + x.x_register) % 256, FALSE, ReadU8Panic(addr))
      [] mode = "ZeroPageY" ->
            Resolved((read_u8(x, addr) + x.y_register) % 256, FALSE, ReadU8Panic(addr))
      [] OTHER ->
            Resolved(0, FALSE, Payload("No effective address for {:?}", <<mode>>))

----------------------------------------------------------------------------
(* Instruction handlers.  Each takes the context, the operand value and    *)
(* the effective address (None when absent) and yields the context after   *)
(* it and the extra cycles it returns.                                     *)

Done(x, extra_cycles) == [ctx |-> x, extra |-> extra_cycles]
Expect(x, what) == Done(Panic(x, Payload(what, <<>>)), 0)

\* Z from zero-ness and N from bit 7 of a result byte
SetZN(x, result) ==
    set_status_flag(set_status_flag(x, Zero, result = 0), Negative, BitAnd(result, 128) # 0)

\* a taken branch whose page cross is judged from the branch's own address
branchTaken_page_of_pc(x, offset) ==
    LET pc_next == (x.program_counter + 2) % 65536
        target_pc == (pc_next + AsI8(offset) + 65536) % 65536
    IN  Done([x EXCEPT !.program_counter = target_pc],
             IF page_crossed(x.program_counter, target_pc) THEN 2 ELSE 1)

\* branch(condition, offset): offset is the operand byte read as i8
branchTaken(x, offset) ==
    LET pc_next == (x.program_counter + 2) % 65536
        target_pc == (pc_next + AsI8(offset) + 65536) % 65536
    IN  Done([x EXCEPT !.program_counter = target_pc],
             IF page_crossed(pc_next, target_pc) THEN 2 ELSE 1)

branch(x, condition, offset) ==
    IF condition THEN branchTaken(x, offset) ELSE Done(x, 0)

handle_bcs(x, v, a) ==
    IF v = None THEN Expect(x, "BUG: memory value of BCS should be present")
    ELSE branch(x, get_status_flag(x, Carry), v)
handle_beq(x, v, a) ==
    IF v = None THEN Expect(x, "BUG: memory value of BEQ should be present")
    ELSE branch(x, get_status_flag(x, Zero), v)
handle_bmi(x, v, a) ==
    IF v = None THEN Expect(x, "BUG: memory value of BMI should be present")
    ELSE branch(x, get_status_flag(x, Negative), v)
handle_bvc(x, v, a) ==
    IF v = None THEN Expect(x, "BUG: memory value of BVC should be present")
    ELSE branch(x, ~get_status_flag(x, Overflow), v)
handle_bvs(x, v, a) ==
    IF v = None THEN Expect(x, "BUG: memory value of BVS should be present")
    ELSE branch(x, get_status_flag(x, Overflow), v)
\* bcc.rs, bne.rs and bpl.rs are not among the sources: the complements of
\* BCS, BEQ and BMI as section 4.5 describes them
handle_bcc(x, v, a) ==
    IF v = None THEN Expect(x, "BUG: memory value of BCC should be present")
    ELSE branch(x, ~get_status_flag(x, Carry), v)
handle_bne(x, v, a) ==
    IF v = None THEN Expect(x, "BUG: memory value of BNE should be present")
    ELSE branch(x, ~get_status_flag(x, Zero), v)
handle_bpl(x, v, a) ==
    IF v = None THEN Expect(x, "BUG: memory value of BPL should be present")
    ELSE branch(x, ~get_status_flag(x, Negative), v)

handle_jmp(x, v, a) ==
    IF a = None THEN Expect(x, "BUG: address of JMP should be present")
    ELSE Done([x EXCEPT !.program_counter = a], 0)

handle_jsr(x, v, a) ==
    IF a = None THEN Expect(x, "BUG: address of JSR should be present")
    ELSE LET return_address == x.program_counter + 2
         IN  IF return_address > 65535 /\ overflow_checks
             THEN Done(Panic(x, ADD_OVERFLOW), 0)
             ELSE Done([push_u16(x, return_address % 65536) EXCEPT !.program_counter = a], 0)

\* handle_rts without the increment of the popped address
handle_rts_no_increment(x, v, a) ==
    LET p == pop_u16(x)
    IN  Done([p.ctx EXCEPT !.program_counter = p.value], 0)

handle_rts(x, v, a) ==
    LET p == pop_u16(x)
    IN  Done([p.ctx EXCEPT !.program_counter = (p.value + 1) % 65536], 0)

\* PushedStatus without the B bit
PushedStatusNoBreak(x) == BitOr(x.status_register, Pow2(Unused))

\* the status byte PHP and BRK push: B and U set
PushedStatus(x) == BitOr(BitOr(x.status_register, Pow2(BreakCommand)), Pow2(Unused))

\* PulledStatus with the popped byte loaded whole, B and U included
PulledStatusAllBits(x, popped_status) == popped_status

\* the status PLP and RTI load: B and U kept from the register
PulledStatus(x, popped_status) ==
    LET preserved_mask == BitOr(Pow2(BreakCommand), Pow2(Unused))
    IN  BitOr(BitAnd(popped_status, BitNot8(preserved_mask)),
              BitAnd(x.status_register, preserved_mask))

handle_brk(x, v, a) ==
    LET pushed_pc == x.program_counter + 2
    IN  IF pushed_pc > 65535 /\ overflow_checks
        THEN Done(Panic(x, ADD_OVERFLOW), 0)
        ELSE LET x1 == push_u16(x, pushed_pc % 65536)
                 x2 == push_u8(x1, PushedStatus(x1))
                 x3 == set_status_flag(x2, InterruptDisable, TRUE)
             IN  Done([x3 EXCEPT !.program_counter = read_u16(x3, 65534)], 0)

\* an RTI that adds 1 to the popped address, as RTS does
handle_rti_plus_one(x, v, a) ==
    LET s == pop_u8(x)
        p == pop_u16(s.ctx)
    IN  Done([p.ctx EXCEPT !.program_counter = (p.value + 1) % 65536,
                           !.status_register = PulledStatus(p.ctx, s.value)], 0)

handle_rti(x, v, a) ==
    LET s == pop_u8(x)
        p == pop_u16(s.ctx)
    IN  Done([p.ctx EXCEPT !.program_counter = p.value,
                           !.status_register = PulledStatus(p.ctx, s.value)], 0)

\* a PHP that pushes P as it is
handle_php_plain(x, v, a) == Done(push_u8(x, x.status_register), 0)

handle_php(x, v, a) == Done(push_u8(x, PushedStatus(x)), 0)

handle_plp(x, v, a) ==
    LET s == pop_u8(x)
    IN  Done([s.ctx EXCEPT !.status_register = PulledStatus(s.ctx, s.value)], 0)

handle_pha(x, v, a) == Done(push_u8(x, x.accumulator), 0)

handle_pla(x, v, a) ==
    LET s == pop_u8(x)
    IN  Done(SetZN([s.ctx EXCEPT !.accumulator = s.value], s.value), 0)

handle_nop(x, v, a) == Done(x, 0)

\* KIL / JAM: sets the halted flag
handle_kil(x, v, a) == Done([x EXCEPT !.halted = TRUE], 0)

\* an addition that honours decimal mode: with D set, a low nibble above 9
\* is adjusted by 6
AddWithCarryDecimal(x, value) ==
    LET carry_in == IF get_status_flag(x, Carry) THEN 1 ELSE 0
        binary == x.accumulator + value + carry_in
        sum == IF get_status_flag(x, DecimalMode)
                  /\ (x.accumulator % 16) + (value % 16) + carry_in > 9
               THEN binary + 6 ELSE binary
        result == sum % 256
        x1 == set_status_flag(x, Carry, sum > 255)
        x2 == SetZN(x1, result)
    IN  [x2 EXCEPT !.accumulator = result]

\* the sum, carry and signed-overflow rule shared by ADC and SBC
AddWithCarry(x, value) ==
    LET carry_in == IF get_status_flag(x, Carry) THEN 1 ELSE 0
        sum == x.accumulator + value + carry_in
        result == sum % 256
        signed_accumulator == AsI8(x.accumulator)
        signed_value == AsI8(value)
        signed_result == AsI8(result)
        overflow == \/ (signed_accumulator >= 0 /\ signed_value >= 0 /\ signed_result < 0)
                    \/ (signed_accumulator < 0 /\ signed_value < 0 /\ signed_result >= 0)
        x1 == set_status_flag(x, Carry, sum > 255)
        x2 == SetZN(x1, result)
        x3 == set_status_flag(x2, Overflow, overflow)
    IN  [x3 EXCEPT !.accumulator = result]

\* an ADC that ignores the carry flag
handle_adc_carry_cleared(x, v, a) ==
    IF v = None THEN Expect(x, "BUG: memory value of ADC should be present")
    ELSE Done(AddWithCarry(set_status_flag(x, Carry, FALSE), v), 0)

handle_adc(x, v, a) ==
    IF v = None THEN Expect(x, "BUG: memory value of ADC should be present")
    ELSE Done(AddWithCarry(x, v), 0)

\* an SBC that adds the two's complement of the operand
handle_sbc_negated(x, v, a) ==
    IF v = None THEN Expect(x, "BUG: memory value of SBC should be present")
    ELSE Done(AddWithCarry(x, (256 - v) % 256), 0)

handle_sbc(x, v, a) ==
    IF v = None THEN Expect(x, "BUG: memory value of SBC should be present")
    ELSE Done(AddWithCarry(x, BitNot8(v)), 0)

handle_and(x, v, a) ==
    IF v = None THEN Expect(x, "BUG: memory value of AND should be present")
    ELSE LET result == BitAnd(x.accumulator, v)
         IN  Done([SetZN(x, result) EXCEPT !.accumulator = result], 0)

handle_ora(x, v, a) ==
    IF v = None THEN Expect(x, "BUG: memory value of ORA should be present")
    ELSE LET result == BitOr(x.accumulator, v)
         IN  Done(SetZN([x EXCEPT !.accumulator = result], result), 0)

handle_eor(x, v, a) ==
    IF v = None THEN Expect(x, "BUG: memory value of EOR should be present")
    ELSE LET result == BitXor(x.accumulator, v)
         IN  Done(SetZN([x EXCEPT !.accumulator = result], result), 0)

\* the write-back of the shifts and rotates: memory if an address is given,
\* the accumulator otherwise
WriteBack(x, a, result) ==
    IF a # None THEN write_u8(x, a, result) ELSE [x EXCEPT !.accumulator = result]

handle_asl(x, v, a) ==
    IF v = None THEN Expect(x, "BUG: memory value of ASL should be present")
    ELSE LET result == (v * 2) % 256
             x1 == set_status_flag(x, Carry, BitAnd(v, 128) # 0)
         IN  Done(WriteBack(SetZN(x1, result), a, result), 0)

handle_lsr(x, v, a) ==
    IF v = None THEN Expect(x, "BUG: memory value of LSR should be present")
    ELSE LET x1 == set_status_flag(x, Carry, BitAnd(v, 1) # 0)
             result == v \div 2
         IN  Done(WriteBack(SetZN(x1, result), a, result), 0)

\* a ROL that shifts a zero into bit 0
handle_rol_carry_dropped(x, v, a) ==
    IF v = None THEN Expect(x, "BUG: memory value of ROL should be present")
    ELSE LET x1 == set_status_flag(x, Carry, BitAnd(v, 128) # 0)
             result == (v * 2) % 256
         IN  Done(WriteBack(SetZN(x1, result), a, result), 0)

handle_rol(x, v, a) ==
    IF v = None THEN Expect(x, "BUG: memory value of ROL should be present")
    ELSE LET old_carry == IF get_status_flag(x, Carry) THEN 1 ELSE 0
             x1 == set_status_flag(x, Carry, BitAnd(v, 128) # 0)
             result == BitOr((v * 2) % 256, old_carry)
         IN  Done(WriteBack(SetZN(x1, result), a, result), 0)

\* ror.rs is not among the sources: section 4.5's
\* new = (value >> 1) | (old_C << 7), C <- bit 0
handle_ror(x, v, a) ==
    IF v = None THEN Expect(x, "BUG: memory value of ROR should be present")
    ELSE LET old_carry == IF get_status_flag(x, Carry) THEN 1 ELSE 0
             x1 == set_status_flag(x, Carry, BitAnd(v, 1) # 0)
             result == BitOr(v \div 2, old_carry * 128)
         IN  Done(WriteBack(SetZN(x1, result), a, result), 0)

handle_bit(x, v, a) ==
    LET result == BitAnd(x.accumulator, v)
        x1 == set_status_flag(x, Zero, result = 0)
        x2 == set_status_flag(x1, Overflow, BitAnd(v, 64) # 0)
    IN  Done(set_status_flag(x2, Negative, BitAnd(v, 128) # 0), 0)

\* the flags of CMP, CPX and CPY for a register and an operand
Compare(x, reg, value) ==
    LET result == (reg - value + 256) % 256
    IN  set_status_flag(SetZN(x, result), Carry, reg >= value)

handle_cmp(x, v, a) ==
    IF v = None THEN Expect(x, "BUG: memory value of CMP should be present")
    ELSE Done(Compare(x, x.accumulator, v), 0)
handle_cpx(x, v, a) ==
    IF v = None THEN Expect(x, "BUG: memory value of CPX should be present")
    ELSE Done(Compare(x, x.x_register, v), 0)
handle_cpy(x, v, a) ==
    IF v = None THEN Expect(x, "BUG: memory value of CPY should be present")
    ELSE Done(Compare(x, x.y_register, v), 0)

handle_lda(x, v, a) ==
    IF v = None THEN Expect(x, "BUG: memory value of LDA should be present")
    ELSE Done(SetZN([x EXCEPT !.accumulator = v], v), 0)
handle_ldx(x, v, a) ==
    IF v = None THEN Expect(x, "BUG: memory value of LDX should be present")
    ELSE Done(SetZN([x EXCEPT !.x_register = v], v), 0)
handle_ldy(x, v, a) ==
    IF v = None THEN Expect(x, "BUG: memory value of LDA should be present")
    ELSE Done(SetZN([x EXCEPT !.y_register = v], v), 0)

\* an STA that sets Z and N as a load does
handle_sta_sets_flags(x, v, a) ==
    IF a = None THEN Expect(x, "BUG: address of STA should be present")
    ELSE Done(SetZN(write_u8(x, a, x.accumulator), x.accumulator), 0)

handle_sta(x, v, a) ==
    IF a = None THEN Expect(x, "BUG: address of STA should be present")
    ELSE Done(write_u8(x, a, x.accumulator), 0)

handle_sty(x, v, a) ==
    IF a = None THEN Expect(x, "BUG: address of STY should be present")
    ELSE Done(write_u8(x, a, x.y_register), 0)
\* stx.rs is not among the sources: section 4.5's store of the X register
handle_stx(x, v, a) ==
    IF a = None THEN Expect(x, "BUG: address of STX should be present")
    ELSE Done(write_u8(x, a, x.x_register), 0)

handle_inc(x, v, a) ==
    IF v = None THEN Expect(x, "BUG: memory value of INC should be present")
    ELSE IF a = None THEN Expect(x, "BUG: address of INC should be present")
    ELSE LET value == (v + 1) % 256
         IN  Done(SetZN(write_u8(x, a, value), value), 0)
handle_dec(x, v, a) ==
    IF v = None THEN Expect(x, "BUG: memory value of DEC should be present")
    ELSE IF a = None THEN Expect(x, "BUG: address of DEC should be present")
    ELSE LET result == (v + 255) % 256
         IN  Done(SetZN(write_u8(x, a, result), result), 0)

handle_inx(x, v, a) ==
    LET result == (x.x_register + 1) % 256
    IN  Done([SetZN(x, result) EXCEPT !.x_register = result], 0)
handle_iny(x, v, a) ==
    LET result == (x.y_register + 1) % 256
    IN  Done([SetZN(x, result) EXCEPT !.y_register = result], 0)
\* handleDEY sets the flags from y - 1 and does not store the result
handle_dey(x, v, a) ==
    LET result == (x.y_register + 255) % 256
    IN  Done(SetZN(x, result), 0)
\* dex.rs is not among the sources: section 4.5's X - 1 with wrap, N/Z updated
handle_dex(x, v, a) ==
    LET result == (x.x_register + 255) % 256
    IN  Done([SetZN(x, result) EXCEPT !.x_register = result], 0)

handle_tay(x, v, a) == Done(SetZN([x EXCEPT !.y_register = x.accumulator], x.accumulator), 0)
handle_tsx(x, v, a) == Done(SetZN([x EXCEPT !.x_register = x.stack_pointer], x.stack_pointer), 0)
handle_txs(x, v, a) == Done([x EXCEPT !.stack_pointer = x.x_register], 0)
handle_tya(x, v, a) == Done(SetZN([x EXCEPT !.accumulator = x.y_register], x.y_register), 0)
\* tax.rs and txa.rs are not among the sources: section 4.5's transfers
handle_tax(x, v, a) == Done(SetZN([x EXCEPT !.x_register = x.accumulator], x.accumulator), 0)
handle_txa(x, v, a) == Done(SetZN([x EXCEPT !.accumulator = x.x_register], x.x_register), 0)

handle_cld(x, v, a) == Done(set_status_flag(x, DecimalMode, FALSE), 0)
handle_cli(x, v, a) == Done(set_status_flag(x, InterruptDisable, FALSE), 0)
handle_sed(x, v, a) == Done(set_status_flag(x, DecimalMode, TRUE), 0)
handle_sei(x, v, a) == Done(set_status_flag(x, InterruptDisable, TRUE), 0)
\* clc.rs, clv.rs and sec.rs are not among the sources: section 4.5's
\* single-flag operations
handle_clc(x, v, a) == Done(set_status_flag(x, Carry, FALSE), 0)
handle_clv(x, v, a) == Done(set_status_flag(x, Overflow, FALSE), 0)
handle_sec(x, v, a) == Done(set_status_flag(x, Carry, TRUE), 0)

\* the `handler` field of an opcode-table entry, by mnemonic
Handler(name, x, v, a) ==
    CASE name = "ADC" -> handle_adc(x, v, a) [] name = "AND" -> handle_and(x, v, a)
      [] name = "ASL" -> handle_asl(x, v, a) [] name = "BCC" -> handle_bcc(x, v, a)
      [] name = "BCS" -> handle_bcs(x, v, a) [] name = "BEQ" -> handle_beq(x, v, a)
      [] name = "BIT" -> handle_bit(x, v, a) [] name = "BMI" -> handle_bmi(x, v, a)
      [] name = "BNE" -> handle_bne(x, v, a) [] name = "BPL" -> handle_bpl(x, v, a)
      [] name = "BRK" -> handle_brk(x, v, a) [] name = "BVC" -> handle_bvc(x, v, a)
      [] name = "BVS" -> handle_bvs(x, v, a) [] name = "CLC" -> handle_clc(x, v, a)
      [] name = "CLD" -> handle_cld(x, v, a) [] name = "CLI" -> handle_cli(x, v, a)
      [] name = "CLV" -> handle_clv(x, v, a) [] name = "CMP" -> handle_cmp(x, v, a)
      [] name = "CPX" -> handle_cpx(x, v, a) [] name = "CPY" -> handle_cpy(x, v, a)
      [] name = "DEC" -> handle_dec(x, v, a) [] name = "DEX" -> handle_dex(x, v, a)
      [] name = "DEY" -> handle_dey(x, v, a) [] name = "EOR" -> handle_eor(x, v, a)
      [] name = "INC" -> handle_inc(x, v, a) [] name = "INX" -> handle_inx(x, v, a)
      [] name = "INY" -> handle_iny(x, v, a) [] name = "JMP" -> handle_jmp(x, v, a)
      [] name = "JSR" -> handle_jsr(x, v, a) [] name = "LDA" -> handle_lda(x, v, a)
      [] name = "LDX" -> handle_ldx(x, v, a) [] name = "LDY" -> handle_ldy(x, v, a)
      [] name = "LSR" -> handle_lsr(x, v, a) [] name = "NOP" -> handle_nop(x, v, a)
      [] name = "ORA" -> handle_ora(x, v, a) [] name = "PHA" -> handle_pha(x, v, a)
      [] name = "PHP" -> handle_php(x, v, a) [] name = "PLA" -> handle_pla(x, v, a)
      [] name = "PLP" -> handle_plp(x, v, a) [] name = "ROL" -> handle_rol(x, v, a)
      [] name = "ROR" -> handle_ror(x, v, a) [] name = "RTI" -> handle_rti(x, v, a)
      [] name = "RTS" -> handle_rts(x, v, a) [] name = "SBC" -> handle_sbc(x, v, a)
      [] name = "SEC" -> handle_sec(x, v, a) [] name = "SED" -> handle_sed(x, v, a)
      [] name = "SEI" -> handle_sei(x, v, a) [] name = "STA" -> handle_sta(x, v, a)
      [] name = "STX" -> handle_stx(x, v, a) [] name = "STY" -> handle_sty(x, v, a)
      [] name = "TAX" -> handle_tax(x, v, a) [] name = "TAY" -> handle_tay(x, v, a)
      [] name = "TSX" -> handle_tsx(x, v, a) [] name = "TXA" -> handle_txa(x, v, a)
      [] name = "TXS" -> handle_txs(x, v, a) [] name = "TYA" -> handle_tya(x, v, a)


----------------------------------------------------------------------------
(* The handlers of the unofficial composites, and reset.                   *)

handle_lax(x, v, a) ==
    IF v = None THEN Expect(x, "BUG: memory value of LAX should be present")
    ELSE Done(SetZN([x EXCEPT !.accumulator = v, !.x_register = v], v), 0)

\* a DCP that compares with the byte before the decrement
handle_dcp_old_value(x, v, a) ==
    IF v = None THEN Expect(x, "BUG: memory value of DCP should be present")
    ELSE IF a = None THEN Expect(x, "BUG: address of DCP should be present")
    ELSE Done(Compare(write_u8(x, a, (v + 255) % 256), x.accumulator, v), 0)

handle_dcp(x, v, a) ==
    IF v = None THEN Expect(x, "BUG: memory value of DCP should be present")
    ELSE IF a = None THEN Expect(x, "BUG: address of DCP should be present")
    ELSE LET new_value == (v + 255) % 256
             x1 == write_u8(x, a, new_value)
             result == (x1.accumulator - new_value + 256) % 256
             x2 == set_status_flag(x1, Zero, result = 0)
             x3 == set_status_flag(x2, Negative, BitAnd(result, 128) # 0)
         IN  Done(set_status_flag(x3, Carry, x1.accumulator >= new_value), 0)

handle_isc(x, v, a) ==
    IF v = None THEN Expect(x, "BUG: memory value of ISC should be present")
    ELSE IF a = None THEN Expect(x, "BUG: address of ISC should be present")
    ELSE LET inc_value == (v + 1) % 256
             x1 == write_u8(x, a, inc_value)
             inverted == BitNot8(inc_value)
             carry_in == IF get_status_flag(x1, Carry) THEN 1 ELSE 0
             sum == x1.accumulator + inverted + carry_in
             result == sum % 256
             x2 == set_status_flag(x1, Carry, sum > 255)
             x3 == set_status_flag(x2, Zero, result = 0)
             x4 == set_status_flag(x3, Negative, BitAnd(result, 128) # 0)
             signed_a == AsI8(x1.accumulator)
             signed_b == AsI8(inverted)
             signed_r == AsI8(result)
             overflow == \/ (signed_a >= 0 /\ signed_b >= 0 /\ signed_r < 0)
                         \/ (signed_a < 0 /\ signed_b < 0 /\ signed_r >= 0)
         IN  Done([set_status_flag(x4, Overflow, overflow) EXCEPT !.accumulator = result], 0)

\* the write of the shifted byte, made only when an address is given
WriteIfAddress(x, a, value) == IF a # None THEN write_u8(x, a, value) ELSE x

handle_slo(x, v, a) ==
    IF v = None THEN Expect(x, "BUG: memory value of SLO should be present")
    ELSE LET new_carry == BitAnd(v, 128) # 0
             rotated == (v * 2) % 256
             x1 == WriteIfAddress(x, a, rotated)
             acc == BitOr(x1.accumulator, rotated)
             x2 == set_status_flag([x1 EXCEPT !.accumulator = acc], Carry, new_carry)
         IN  Done(SetZN(x2, acc), 0)

handle_rla(x, v, a) ==
    IF v = None THEN Expect(x, "BUG: memory value of RLA should be present")
    ELSE LET old_carry == IF get_status_flag(x, Carry) THEN 1 ELSE 0
             new_carry == BitAnd(v, 128) # 0
             rotated == BitOr((v * 2) % 256, old_carry)
             x1 == WriteIfAddress(x, a, rotated)
             acc == BitAnd(x1.accumulator, rotated)
             x2 == set_status_flag([x1 EXCEPT !.accumulator = acc], Carry, new_carry)
         IN  Done(SetZN(x2, acc), 0)

handle_sre(x, v, a) ==
    IF v = None THEN Expect(x, "BUG: memory value of SRE should be present")
    ELSE LET new_carry == BitAnd(v, 1) # 0
             shifted == v \div 2
             x1 == WriteIfAddress(x, a, shifted)
             acc == BitXor(x1.accumulator, shifted)
             x2 == set_status_flag([x1 EXCEPT !.accumulator = acc], Carry, new_carry)
         IN  Done(SetZN(x2, acc), 0)

\* an RRA that adds with the carry that held before the instruction
handle_rra_old_carry_in(x, v, a) ==
    IF v = None THEN Expect(x, "BUG: memory value of RRA should be present")
    ELSE LET old_carry == IF get_status_flag(x, Carry) THEN 1 ELSE 0
             rotated == BitOr(v \div 2, (old_carry * 128) % 256)
             x1 == WriteIfAddress(x, a, rotated)
             sum == x1.accumulator + rotated + old_carry
             result == sum % 256
             x2 == set_status_flag(x1, Carry, sum > 255)
             x3 == set_status_flag(x2, Zero, result = 0)
             x4 == set_status_flag(x3, Negative, BitAnd(result, 128) # 0)
             signed_a == AsI8(x1.accumulator)
             signed_b == AsI8(rotated)
             signed_r == AsI8(result)
             overflow == \/ (signed_a >= 0 /\ signed_b >= 0 /\ signed_r < 0)
                         \/ (signed_a < 0 /\ signed_b < 0 /\ signed_r >= 0)
         IN  Done([set_status_flag(x4, Overflow, overflow) EXCEPT !.accumulator = result], 0)

handle_rra(x, v, a) ==
    IF v = None THEN Expect(x, "BUG: memory value of RRA should be present")
    ELSE LET old_carry == IF get_status_flag(x, Carry) THEN 1 ELSE 0
             new_carry == BitAnd(v, 1) # 0
             rotated == BitOr(v \div 2, (old_carry * 128) % 256)
             x1 == set_status_flag(WriteIfAddress(x, a, rotated), Carry, new_carry)
             carry_in == IF get_status_flag(x1, Carry) THEN 1 ELSE 0
             sum == x1.accumulator + rotated + carry_in
             result == sum % 256
             x2 == set_status_flag(x1, Carry, sum > 255)
             x3 == set_status_flag(x2, Zero, result = 0)
             x4 == set_status_flag(x3, Negative, BitAnd(result, 128) # 0)
             signed_a == AsI8(x1.accumulator)
             signed_b == AsI8(rotated)
             signed_r == AsI8(result)
             overflow == \/ (signed_a >= 0 /\ signed_b >= 0 /\ signed_r < 0)
                         \/ (signed_a < 0 /\ signed_b < 0 /\ signed_r >= 0)
         IN  Done([set_status_flag(x4, Overflow, overflow) EXCEPT !.accumulator = result], 0)

\* AAX (SAX): store A & X
handle_aax(x, v, a) ==
    IF a = None THEN Expect(x, "BUG: address for AAX should be present")
    ELSE Done(write_u8(x, a, BitAnd(x.accumulator, x.x_register)), 0)

\* the byte SXA, SYA and XAS store: the register ANDed with the high byte
\* of the address the handler is given, plus one
AndHighPlusOne(register, address) == BitAnd(register, ((address \div 256) + 1) % 256)

handle_sxa(x, v, a) ==
    IF a = None THEN Expect(x, "BUG: address of SXA should be present")
    ELSE Done(write_u8(x, a, AndHighPlusOne(x.x_register, a)), 0)

handle_sya(x, v, a) ==
    IF a = None THEN Expect(x, "BUG: address of SYA should be present")
    ELSE Done(write_u8(x, a, AndHighPlusOne(x.y_register, a)), 0)

\* the stack pointer XAS sets
XasPointer(x) == BitAnd(x.x_register, x.accumulator)

handle_xas(x, v, a) ==
    IF a = None THEN Expect(x, "BUG: address of XAS should be present")
    ELSE Done(write_u8([x EXCEPT !.stack_pointer = XasPointer(x)], a,
                       AndHighPlusOne(XasPointer(x), a)), 0)

\* a handler by mnemonic: the composites, which the opcode table does not
\* list, and the handlers of the table
HandlerOf(name, x, v, a) ==
    CASE name = "LAX" -> handle_lax(x, v, a)
      [] name = "AAX" -> handle_aax(x, v, a)
      [] name = "SXA" -> handle_sxa(x, v, a)
      [] name = "SYA" -> handle_sya(x, v, a)
      [] name = "XAS" -> handle_xas(x, v, a)
      [] name = "DCP" -> handle_dcp(x, v, a)
      [] name = "ISC" -> handle_isc(x, v, a)
      [] name = "SLO" -> handle_slo(x, v, a)
      [] name = "RLA" -> handle_rla(x, v, a)
      [] name = "SRE" -> handle_sre(x, v, a)
      [] name = "RRA" -> handle_rra(x, v, a)
      [] OTHER -> Handler(name, x, v, a)

\* a reset that leaves the stack pointer at its cold-start value
reset_cold_start(x) ==
    [x EXCEPT !.accumulator = 0, !.x_register = 0, !.status_register = 36,
              !.stack_pointer = STACK_ADDRESS_DEFAULT_COLD_START,
              !.program_counter = read_u16(x, RESET_VECTOR_ADDRESS),
              !.cycles = 8]

\* reset()
reset(x) ==
    [x EXCEPT !.accumulator = 0, !.x_register = 0, !.status_register = 36,
              !.stack_pointer = STACK_ADDRESS_DEFAULT_WARM_START,
              !.program_counter = read_u16(x, RESET_VECTOR_ADDRESS),
              !.cycles = 8]
----------------------------------------------------------------------------
(* The opcode table.                                                       *)

OPERAND_MAP ==
       (105 :> [opcode |-> 105, name |-> "ADC", addressing_mode |-> "Immediate", bytes |-> 2, cycles |-> 2])
    @@ (101 :> [opcode |-> 101, name |-> "ADC", addressing_mode |-> "ZeroPage", bytes |-> 2, cycles |-> 3])
    @@ (117 :> [opcode |-> 117, name |-> "ADC", addressing_mode |-> "ZeroPageX", bytes |-> 2, cycles |-> 4])
    @@ (109 :> [opcode |-> 109, name |-> "ADC", addressing_mode |-> "Absolute", bytes |-> 3, cycles |-> 4])
    @@ (125 :> [opcode |-> 125, name |-> "ADC", addressing_mode |-> "AbsoluteX", bytes |-> 3, cycles |-> 4])
    @@ (121 :> [opcode |-> 121, name |-> "ADC", addressing_mode |-> "AbsoluteY", bytes |-> 3, cycles |-> 4])
    @@ (97 :> [opcode |-> 97, name |-> "ADC", addressing_mode |-> "IndirectX", bytes |-> 2, cycles |-> 6])
    @@ (113 :> [opcode |-> 113, name |-> "ADC", addressing_mode |-> "IndirectY", bytes |-> 2, cycles |-> 5])
    @@ (41 :> [opcode |-> 41, name |-> "AND", addressing_mode |-> "Immediate", bytes |-> 2, cycles |-> 2])
    @@ (37 :> [opcode |-> 37, name |-> "AND", addressing_mode |-> "ZeroPage", bytes |-> 2, cycles |-> 3])
    @@ (53 :> [opcode |-> 53, name |-> "AND", addressing_mode |-> "ZeroPageX", bytes |-> 2, cycles |-> 4])
    @@ (45 :> [opcode |-> 45, name |-> "AND", addressing_mode |-> "Absolute", bytes |-> 3, cycles |-> 4])
    @@ (61 :> [opcode |-> 61, name |-> "AND", addressing_mode |-> "AbsoluteX", bytes |-> 3, cycles |-> 4])
    @@ (57 :> [opcode |-> 57, name |-> "AND", addressing_mode |-> "AbsoluteY", bytes |-> 3, cycles |-> 4])
    @@ (33 :> [opcode |-> 33, name |-> "AND", addressing_mode |-> "IndirectX", bytes |-> 2, cycles |-> 6])
    @@ (49 :> [opcode |-> 49, name |-> "AND", addressing_mode |-> "IndirectY", bytes |-> 2, cycles |-> 5])
    @@ (10 :> [opcode |-> 10, name |-> "ASL", addressing_mode |-> "Accumulator", bytes |-> 1, cycles |-> 2])
    @@ (6 :> [opcode |-> 6, name |-> "ASL", addressing_mode |-> "ZeroPage", bytes |-> 2, cycles |-> 5])
    @@ (22 :> [opcode |-> 22, name |-> "ASL", addressing_mode |-> "ZeroPageX", bytes |-> 2, cycles |-> 6])
    @@ (14 :> [opcode |-> 14, name |-> "ASL", addressing_mode |-> "Absolute", bytes |-> 3, cycles |-> 6])
    @@ (30 :> [opcode |-> 30, name |-> "ASL", addressing_mode |-> "AbsoluteX", bytes |-> 3, cycles |-> 7])
    @@ (144 :> [opcode |-> 144, name |-> "BCC", addressing_mode |-> "Relative", bytes |-> 2, cycles |-> 2])
    @@ (176 :> [opcode |-> 176, name |-> "BCS", addressing_mode |-> "Relative", bytes |-> 2, cycles |-> 2])
    @@ (240 :> [opcode |-> 240, name |-> "BEQ", addressing_mode |-> "Relative", bytes |-> 2, cycles |-> 2])
    @@ (36 :> [opcode |-> 36, name |-> "BIT", addressing_mode |-> "ZeroPage", bytes |-> 2, cycles |-> 3])
    @@ (44 :> [opcode |-> 44, name |-> "BIT", addressing_mode |-> "Absolute", bytes |-> 3, cycles |-> 4])
    @@ (48 :> [opcode |-> 48, name |-> "BMI", addressing_mode |-> "Relative", bytes |-> 2, cycles |-> 2])
    @@ (208 :> [opcode |-> 208, name |-> "BNE", addressing_mode |-> "Relative", bytes |-> 2, cycles |-> 2])
    @@ (16 :> [opcode |-> 16, name |-> "BPL", addressing_mode |-> "Relative", bytes |-> 2, cycles |-> 2])
    @@ (0 :> [opcode |-> 0, name |-> "BRK", addressing_mode |-> "Implicit", bytes |-> 1, cycles |-> 7])
    @@ (80 :> [opcode |-> 80, name |-> "BVC", addressing_mode |-> "Relative", bytes |-> 2, cycles |-> 2])
    @@ (112 :> [opcode |-> 112, name |-> "BVS", addressing_mode |-> "Relative", bytes |-> 2, cycles |-> 2])
    @@ (24 :> [opcode |-> 24, name |-> "CLC", addressing_mode |-> "Implicit", bytes |-> 1, cycles |-> 2])
    @@ (216 :> [opcode |-> 216, name |-> "CLD", addressing_mode |-> "Implicit", bytes |-> 1, cycles |-> 2])
    @@ (88 :> [opcode |-> 88, name |-> "CLI", addressing_mode |-> "Implicit", bytes |-> 1, cycles |-> 2])
    @@ (184 :> [opcode |-> 184, name |-> "CLV", addressing_mode |-> "Implicit", bytes |-> 1, cycles |-> 2])
    @@ (201 :> [opcode |-> 201, name |-> "CMP", addressing_mode |-> "Immediate", bytes |-> 2, cycles |-> 2])
    @@ (197 :> [opcode |-> 197, name |-> "CMP", addressing_mode |-> "ZeroPage", bytes |-> 2, cycles |-> 3])
    @@ (213 :> [opcode |-> 213, name |-> "CMP", addressing_mode |-> "ZeroPageX", bytes |-> 2, cycles |-> 4])
    @@ (205 :> [opcode |-> 205, name |-> "CMP", addressing_mode |-> "Absolute", bytes |-> 3, cycles |-> 4])
    @@ (221 :> [opcode |-> 221, name |-> "CMP", addressing_mode |-> "AbsoluteX", bytes |-> 3, cycles |-> 4])
    @@ (217 :> [opcode |-> 217, name |-> "CMP", addressing_mode |-> "AbsoluteY", bytes |-> 3, cycles |-> 4])
    @@ (193 :> [opcode |-> 193, name |-> "CMP", addressing_mode |-> "IndirectX", bytes |-> 2, cycles |-> 6])
    @@ (209 :> [opcode |-> 209, name |-> "CMP", addressing_mode |-> "IndirectY", bytes |-> 2, cycles |-> 5])
    @@ (224 :> [opcode |-> 224, name |-> "CPX", addressing_mode |-> "Immediate", bytes |-> 2, cycles |-> 2])
    @@ (228 :> [opcode |-> 228, name |-> "CPX", addressing_mode |-> "ZeroPage", bytes |-> 2, cycles |-> 3])
    @@ (236 :> [opcode |-> 236, name |-> "CPX", addressing_mode |-> "Absolute", bytes |-> 3, cycles |-> 4])
    @@ (192 :> [opcode |-> 192, name |-> "CPY", addressing_mode |-> "Immediate", bytes |-> 2, cycles |-> 2])
    @@ (196 :> [opcode |-> 196, name |-> "CPY", addressing_mode |-> "ZeroPage", bytes |-> 2, cycles |-> 3])
    @@ (204 :> [opcode |-> 204, name |-> "CPY", addressing_mode |-> "Absolute", bytes |-> 3, cycles |-> 4])
    @@ (198 :> [opcode |-> 198, name |-> "DEC", addressing_mode |-> "ZeroPage", bytes |-> 2, cycles |-> 5])
    @@ (214 :> [opcode |-> 214, name |-> "DEC", addressing_mode |-> "ZeroPageX", bytes |-> 2, cycles |-> 6])
    @@ (206 :> [opcode |-> 206, name |-> "DEC", addressing_mode |-> "Absolute", bytes |-> 3, cycles |-> 6])
    @@ (222 :> [opcode |-> 222, name |-> "DEC", addressing_mode |-> "AbsoluteX", bytes |-> 3, cycles |-> 7])
    @@ (202 :> [opcode |-> 202, name |-> "DEX", addressing_mode |-> "Implicit", bytes |-> 1, cycles |-> 2])
    @@ (136 :> [opcode |-> 136, name |-> "DEY", addressing_mode |-> "Implicit", bytes |-> 1, cycles |-> 2])
    @@ (73 :> [opcode |-> 73, name |-> "EOR", addressing_mode |-> "Immediate", bytes |-> 2, cycles |-> 2])
    @@ (69 :> [opcode |-> 69, name |-> "EOR", addressing_mode |-> "ZeroPage", bytes |-> 2, cycles |-> 3])
    @@ (85 :> [opcode |-> 85, name |-> "EOR", addressing_mode |-> "ZeroPageX", bytes |-> 2, cycles |-> 4])
    @@ (77 :> [opcode |-> 77, name |-> "EOR", addressing_mode |-> "Absolute", bytes |-> 3, cycles |-> 4])
    @@ (93 :> [opcode |-> 93, name |-> "EOR", addressing_mode |-> "AbsoluteX", bytes |-> 3, cycles |-> 4])
    @@ (89 :> [opcode |-> 89, name |-> "EOR", addressing_mode |-> "AbsoluteY", bytes |-> 3, cycles |-> 4])
    @@ (65 :> [opcode |-> 65, name |-> "EOR", addressing_mode |-> "IndirectX", bytes |-> 2, cycles |-> 6])
    @@ (81 :> [opcode |-> 81, name |-> "EOR", addressing_mode |-> "IndirectY", bytes |-> 2, cycles |-> 5])
    @@ (230 :> [opcode |-> 230, name |-> "INC", addressing_mode |-> "ZeroPage", bytes |-> 2, cycles |-> 5])
    @@ (246 :> [opcode |-> 246, name |-> "INC", addressing_mode |-> "ZeroPageX", bytes |-> 2, cycles |-> 6])
    @@ (238 :> [opcode |-> 238, name |-> "INC", addressing_mode |-> "Absolute", bytes |-> 3, cycles |-> 6])
    @@ (254 :> [opcode |-> 254, name |-> "INC", addressing_mode |-> "AbsoluteX", bytes |-> 3, cycles |-> 7])
    @@ (232 :> [opcode |-> 232, name |-> "INX", addressing_mode |-> "Implicit", bytes |-> 1, cycles |-> 2])
    @@ (200 :> [opcode |-> 200, name |-> "INY", addressing_mode |-> "Implicit", bytes |-> 1, cycles |-> 2])
    @@ (76 :> [opcode |-> 76, name |-> "JMP", addressing_mode |-> "Absolute", bytes |-> 3, cycles |-> 3])
    @@ (108 :> [opcode |-> 108, name |-> "JMP", addressing_mode |-> "Indirect", bytes |-> 3, cycles |-> 5])
    @@ (32 :> [opcode |-> 32, name |-> "JSR", addressing_mode |-> "Absolute", bytes |-> 3, cycles |-> 6])
    @@ (169 :> [opcode |-> 169, name |-> "LDA", addressing_mode |-> "Immediate", bytes |-> 2, cycles |-> 2])
    @@ (165 :> [opcode |-> 165, name |-> "LDA", addressing_mode |-> "ZeroPage", bytes |-> 2, cycles |-> 3])
    @@ (181 :> [opcode |-> 181, name |-> "LDA", addressing_mode |-> "ZeroPageX", bytes |-> 2, cycles |-> 4])
    @@ (173 :> [opcode |-> 173, name |-> "LDA", addressing_mode |-> "Absolute", bytes |-> 3, cycles |-> 4])
    @@ (189 :> [opcode |-> 189, name |-> "LDA", addressing_mode |-> "AbsoluteX", bytes |-> 3, cycles |-> 4])
    @@ (185 :> [opcode |-> 185, name |-> "LDA", addressing_mode |-> "AbsoluteY", bytes |-> 3, cycles |-> 4])
    @@ (161 :> [opcode |-> 161, name |-> "LDA", addressing_mode |-> "IndirectX", bytes |-> 2, cycles |-> 6])
    @@ (177 :> [opcode |-> 177, name |-> "LDA", addressing_mode |-> "IndirectY", bytes |-> 2, cycles |-> 5])
    @@ (162 :> [opcode |-> 162, name |-> "LDX", addressing_mode |-> "Immediate", bytes |-> 2, cycles |-> 2])
    @@ (166 :> [opcode |-> 166, name |-> "LDX", addressing_mode |-> "ZeroPage", bytes |-> 2, cycles |-> 3])
    @@ (182 :> [opcode |-> 182, name |-> "LDX", addressing_mode |-> "ZeroPageY", bytes |-> 2, cycles |-> 4])
    @@ (174 :> [opcode |-> 174, name |-> "LDX", addressing_mode |-> "Absolute", bytes |-> 3, cycles |-> 4])
    @@ (190 :> [opcode |-> 190, name |-> "LDX", addressing_mode |-> "AbsoluteY", bytes |-> 3, cycles |-> 4])
    @@ (160 :> [opcode |-> 160, name |-> "LDY", addressing_mode |-> "Immediate", bytes |-> 2, cycles |-> 2])
    @@ (164 :> [opcode |-> 164, name |-> "LDY", addressing_mode |-> "ZeroPage", bytes |-> 2, cycles |-> 3])
    @@ (180 :> [opcode |-> 180, name |-> "LDY", addressing_mode |-> "ZeroPageX", bytes |-> 2, cycles |-> 4])
    @@ (172 :> [opcode |-> 172, name |-> "LDY", addressing_mode |-> "Absolute", bytes |-> 3, cycles |-> 4])
    @@ (188 :> [opcode |-> 188, name |-> "LDY", addressing_mode |-> "AbsoluteX", bytes |-> 3, cycles |-> 4])
    @@ (74 :> [opcode |-> 74, name |-> "LSR", addressing_mode |-> "Accumulator", bytes |-> 1, cycles |-> 2])
    @@ (70 :> [opcode |-> 70, name |-> "LSR", addressing_mode |-> "ZeroPage", bytes |-> 2, cycles |-> 5])
    @@ (86 :> [opcode |-> 86, name |-> "LSR", addressing_mode |-> "ZeroPageX", bytes |-> 2, cycles |-> 6])
    @@ (78 :> [opcode |-> 78, name |-> "LSR", addressing_mode |-> "Absolute", bytes |-> 3, cycles |-> 6])
    @@ (94 :> [opcode |-> 94, name |-> "LSR", addressing_mode |-> "AbsoluteX", bytes |-> 3, cycles |-> 7])
    @@ (234 :> [opcode |-> 234, name |-> "NOP", addressing_mode |-> "Implicit", bytes |-> 1, cycles |-> 2])
    @@ (9 :> [opcode |-> 9, name |-> "ORA", addressing_mode |-> "Immediate", bytes |-> 2, cycles |-> 2])
    @@ (5 :> [opcode |-> 5, name |-> "ORA", addressing_mode |-> "ZeroPage", bytes |-> 2, cycles |-> 3])
    @@ (21 :> [opcode |-> 21, name |-> "ORA", addressing_mode |-> "ZeroPageX", bytes |-> 2, cycles |-> 4])
    @@ (13 :> [opcode |-> 13, name |-> "ORA", addressing_mode |-> "Absolute", bytes |-> 3, cycles |-> 4])
    @@ (29 :> [opcode |-> 29, name |-> "ORA", addressing_mode |-> "AbsoluteX", bytes |-> 3, cycles |-> 4])
    @@ (25 :> [opcode |-> 25, name |-> "ORA", addressing_mode |-> "AbsoluteY", bytes |-> 3, cycles |-> 4])
    @@ (1 :> [opcode |-> 1, name |-> "ORA", addressing_mode |-> "IndirectX", bytes |-> 2, cycles |-> 6])
    @@ (17 :> [opcode |-> 17, name |-> "ORA", addressing_mode |-> "IndirectY", bytes |-> 2, cycles |-> 5])
    @@ (72 :> [opcode |-> 72, name |-> "PHA", addressing_mode |-> "Implicit", bytes |-> 1, cycles |-> 3])
    @@ (8 :> [opcode |-> 8, name |-> "PHP", addressing_mode |-> "Implicit", bytes |-> 1, cycles |-> 3])
    @@ (104 :> [opcode |-> 104, name |-> "PLA", addressing_mode |-> "Implicit", bytes |-> 1, cycles |-> 4])
    @@ (40 :> [opcode |-> 40, name |-> "PLP", addressing_mode |-> "Implicit", bytes |-> 1, cycles |-> 4])
    @@ (42 :> [opcode |-> 42, name |-> "ROL", addressing_mode |-> "Accumulator", bytes |-> 1, cycles |-> 2])
    @@ (38 :> [opcode |-> 38, name |-> "ROL", addressing_mode |-> "ZeroPage", bytes |-> 2, cycles |-> 5])
    @@ (54 :> [opcode |-> 54, name |-> "ROL", addressing_mode |-> "ZeroPageX", bytes |-> 2, cycles |-> 6])
    @@ (46 :> [opcode |-> 46, name |-> "ROL", addressing_mode |-> "Absolute", bytes |-> 3, cycles |-> 6])
    @@ (62 :> [opcode |-> 62, name |-> "ROL", addressing_mode |-> "AbsoluteX", bytes |-> 3, cycles |-> 7])
    @@ (106 :> [opcode |-> 106, name |-> "ROR", addressing_mode |-> "Accumulator", bytes |-> 1, cycles |-> 2])
    @@ (102 :> [opcode |-> 102, name |-> "ROR", addressing_mode |-> "ZeroPage", bytes |-> 2, cycles |-> 5])
    @@ (118 :> [opcode |-> 118, name |-> "ROR", addressing_mode |-> "ZeroPageX", bytes |-> 2, cycles |-> 6])
    @@ (110 :> [opcode |-> 110, name |-> "ROR", addressing_mode |-> "Absolute", bytes |-> 3, cycles |-> 6])
    @@ (126 :> [opcode |-> 126, name |-> "ROR", addressing_mode |-> "AbsoluteX", bytes |-> 3, cycles |-> 7])
    @@ (64 :> [opcode |-> 64, name |-> "RTI", addressing_mode |-> "Implicit", bytes |-> 1, cycles |-> 6])
    @@ (96 :> [opcode |-> 96, name |-> "RTS", addressing_mode |-> "Implicit", bytes |-> 1, cycles |-> 6])
    @@ (233 :> [opcode |-> 233, name |-> "SBC", addressing_mode |-> "Immediate", bytes |-> 2, cycles |-> 2])
    @@ (229 :> [opcode |-> 229, name |-> "SBC", addressing_mode |-> "ZeroPage", bytes |-> 2, cycles |-> 3])
    @@ (245 :> [opcode |-> 245, name |-> "SBC", addressing_mode |-> "ZeroPageX", bytes |-> 2, cycles |-> 4])
    @@ (237 :> [opcode |-> 237, name |-> "SBC", addressing_mode |-> "Absolute", bytes |-> 3, cycles |-> 4])
    @@ (253 :> [opcode |-> 253, name |-> "SBC", addressing_mode |-> "AbsoluteX", bytes |-> 3, cycles |-> 4])
    @@ (249 :> [opcode |-> 249, name |-> "SBC", addressing_mode |-> "AbsoluteY", bytes |-> 3, cycles |-> 4])
    @@ (225 :> [opcode |-> 225, name |-> "SBC", addressing_mode |-> "IndirectX", bytes |-> 2, cycles |-> 6])
    @@ (241 :> [opcode |-> 241, name |-> "SBC", addressing_mode |-> "IndirectY", bytes |-> 2, cycles |-> 5])
    @@ (56 :> [opcode |-> 56, name |-> "SEC", addressing_mode |-> "Implicit", bytes |-> 1, cycles |-> 2])
    @@ (248 :> [opcode |-> 248, name |-> "SED", addressing_mode |-> "Implicit", bytes |-> 1, cycles |-> 2])
    @@ (120 :> [opcode |-> 120, name |-> "SEI", addressing_mode |-> "Implicit", bytes |-> 1, cycles |-> 2])
    @@ (133 :> [opcode |-> 133, name |-> "STA", addressing_mode |-> "ZeroPage", bytes |-> 2, cycles |-> 3])
    @@ (149 :> [opcode |-> 149, name |-> "STA", addressing_mode |-> "ZeroPageX", bytes |-> 2, cycles |-> 4])
    @@ (141 :> [opcode |-> 141, name |-> "STA", addressing_mode |-> "Absolute", bytes |-> 3, cycles |-> 4])
    @@ (157 :> [opcode |-> 157, name |-> "STA", addressing_mode |-> "AbsoluteX", bytes |-> 3, cycles |-> 5])
    @@ (153 :> [opcode |-> 153, name |-> "STA", addressing_mode |-> "AbsoluteY", bytes |-> 3, cycles |-> 5])
    @@ (129 :> [opcode |-> 129, name |-> "STA", addressing_mode |-> "IndirectX", bytes |-> 2, cycles |-> 6])
    @@ (145 :> [opcode |-> 145, name |-> "STA", addressing_mode |-> "IndirectY", bytes |-> 2, cycles |-> 6])
    @@ (134 :> [opcode |-> 134, name |-> "STX", addressing_mode |-> "ZeroPage", bytes |-> 2, cycles |-> 3])
    @@ (150 :> [opcode |-> 150, name |-> "STX", addressing_mode |-> "ZeroPageY", bytes |-> 2, cycles |-> 4])
    @@ (142 :> [opcode |-> 142, name |-> "STX", addressing_mode |-> "Absolute", bytes |-> 3, cycles |-> 4])
    @@ (132 :> [opcode |-> 132, name |-> "STY", addressing_mode |-> "ZeroPage", bytes |-> 2, cycles |-> 3])
    @@ (148 :> [opcode |-> 148, name |-> "STY", addressing_mode |-> "ZeroPageX", bytes |-> 2, cycles |-> 4])
    @@ (140 :> [opcode |-> 140, name |-> "STY", addressing_mode |-> "Absolute", bytes |-> 3, cycles |-> 4])
    @@ (170 :> [opcode |-> 170, name |-> "TAX", addressing_mode |-> "Implicit", bytes |-> 1, cycles |-> 2])
    @@ (168 :> [opcode |-> 168, name |-> "TAY", addressing_mode |-> "Implicit", bytes |-> 1, cycles |-> 2])
    @@ (186 :> [opcode |-> 186, name |-> "TSX", addressing_mode |-> "Implicit", bytes |-> 1, cycles |-> 2])
    @@ (138 :> [opcode |-> 138, name |-> "TXA", addressing_mode |-> "Implicit", bytes |-> 1, cycles |-> 2])
    @@ (154 :> [opcode |-> 154, name |-> "TXS", addressing_mode |-> "Implicit", bytes |-> 1, cycles |-> 2])
    @@ (152 :> [opcode |-> 152, name |-> "TYA", addressing_mode |-> "Implicit", bytes |-> 1, cycles |-> 2])

\* the mnemonics that pay the page-cross cycle in the run loop
READ_FAMILY == {"ADC", "AND", "CMP", "EOR", "LDA", "LDX", "LDY", "ORA", "SBC"}

\* the panic without the opcode in its message
UnimplementedOpcodeBare(opcode) == Payload("Unimplemented opcode", <<>>)

UnimplementedOpcode(opcode) == Payload("Unimplemented opcode: {:02X}", <<opcode>>)

\* AddCycles with the table's base cycles left out
AddCyclesExtraOnly(cycles, base, extra) == cycles + extra

\* cycles += base cycles + the handler's extra cycles
AddCycles(cycles, base, extra) == cycles + base + extra

\* an advance that counts the operand bytes only
AdvancePc_operand_bytes(x, pc_before_instruction, bytes) ==
    IF x.program_counter = pc_before_instruction
    THEN IF x.program_counter + bytes > 65535 /\ overflow_checks
         THEN Panic(x, ADD_OVERFLOW)
         ELSE [x EXCEPT !.program_counter = (@ + bytes - 1) % 65536]
    ELSE x

\* "if the program counter was not changed by a jump or branch, advance it"
AdvancePc(x, pc_before_instruction, bytes) ==
    IF x.program_counter = pc_before_instruction
    THEN IF x.program_counter + bytes > 65535 /\ overflow_checks
         THEN Panic(x, ADD_OVERFLOW)
         ELSE [x EXCEPT !.program_counter = (@ + bytes) % 65536]
    ELSE x

\* "if page_crossed": the read family pays one cycle
PageCrossPenalty(x, r, operand_info) ==
    IF r.page_crossed /\ operand_info.name \in READ_FAMILY
    THEN [x EXCEPT !.cycles = @ + 1]
    ELSE x

\* an operand fetch that leaves the target of a store or a jump unread
ReadOperandUnlessTarget(x, r, operand_info) ==
    IF r.panic # NoFault
    THEN [ctx |-> Panic(x, r.panic), value |-> None, addr |-> None]
    ELSE IF operand_info.name \in {"STA", "STX", "STY", "JMP", "JSR"}
    THEN [ctx |-> x, value |-> None, addr |-> r.addr]
    ELSE IF BusReadPanics(r.addr)
    THEN [ctx |-> Panic(PageCrossPenalty(x, r, operand_info), PPU_TODO),
          value |-> None, addr |-> r.addr]
    ELSE [ctx |-> PageCrossPenalty(x, r, operand_info),
          value |-> read_u8(x, r.addr),
          addr |-> r.addr]

\* the read of the operand value once the address is resolved: the page-cross
\* cycle, then read_u8(addr)
ReadOperand(x, r, operand_info) ==
    IF r.panic # NoFault
    THEN [ctx |-> Panic(x, r.panic), value |-> None, addr |-> None]
    ELSE IF BusReadPanics(r.addr)
    THEN [ctx |-> Panic(PageCrossPenalty(x, r, operand_info), PPU_TODO),
          value |-> None, addr |-> r.addr]
    ELSE [ctx |-> PageCrossPenalty(x, r, operand_info),
          value |-> read_u8(x, r.addr),
          addr |-> r.addr]

\* the operand fetch of one loop iteration: value, address and the context
\* after it (the page-cross cycle added, or the panic of a read)
FetchOperand(x, operand_info, pc_before_instruction) ==
    IF operand_info.addressing_mode = "Implicit"
    THEN [ctx |-> x, value |-> None, addr |-> None]
    ELSE IF operand_info.addressing_mode = "Accumulator"
    THEN [ctx |-> x, value |-> x.accumulator, addr |-> None]
    ELSE IF pc_before_instruction + 1 > 65535 /\ overflow_checks
    THEN [ctx |-> Panic(x, ADD_OVERFLOW), value |-> None, addr |-> None]
    ELSE ReadOperand(x, get_operand_address(x, operand_info.addressing_mode,
                                            (pc_before_instruction + 1) % 65536),
                     operand_info)

\* after the handler returned: cycles += base + extra, then the PC advance
Account(h, operand_info, pc_before_instruction) ==
    IF Panicked(h.ctx) THEN h.ctx
    ELSE AdvancePc([h.ctx EXCEPT !.cycles = AddCycles(@, operand_info.cycles, h.extra)],
                   pc_before_instruction, operand_info.bytes)

\* the handler called with the fetched operand
Execute(f, operand_info, pc_before_instruction) ==
    IF Panicked(f.ctx) THEN f.ctx
    ELSE Account(Handler(operand_info.name, f.ctx, f.value, f.addr),
                 operand_info, pc_before_instruction)

\* the table entry found: operand fetch, handler, accounting
Decode(x, operand_info) ==
    Execute(FetchOperand(x, operand_info, x.program_counter), operand_info,
            x.program_counter)

\* the body of the loop of run_with_callback after the callback returned
Iteration(x) ==
    IF BusReadPanics(x.program_counter) THEN Panic(x, PPU_TODO)
    ELSE IF read_u8(x, x.program_counter) \notin DOMAIN OPERAND_MAP
    THEN Panic(x, UnimplementedOpcode(read_u8(x, x.program_counter)))
    ELSE Decode(x, OPERAND_MAP[read_u8(x, x.program_counter)])

\* the modes trace prints for a 2 byte and for a 3 byte instruction; any
\* other mode is its "Unexpected addressing mode" panic
TwoByteModes == {"Immediate", "ZeroPage", "ZeroPageX", "ZeroPageY",
                 "IndirectX", "IndirectY", "Relative"}

\* a trace with no arm for JMP (indirect)
ThreeByteModesWithoutIndirect == {"Absolute", "AbsoluteX", "AbsoluteY"}

ThreeByteModes == {"Absolute", "AbsoluteX", "AbsoluteY", "Indirect"}

\* trace(cpu): the panic it ends in, NoFault when it returns its line
TracePanic(c) ==
    LET x == Ctx(c)
        pc == c.program_counter
        code == read_u8(x, pc)
    IN  IF BusReadPanics(pc) THEN PPU_TODO
        ELSE IF code \notin DOMAIN OPERAND_MAP
        THEN Payload("Opcode {:x} is not supported", <<code>>)
        ELSE LET ops == OPERAND_MAP[code]
                 mode == ops.addressing_mode
                 ovf(n) == IF pc + n > 65535 /\ overflow_checks THEN ADD_OVERFLOW ELSE NoFault
                 r == get_operand_address(x, mode, (pc + 1) % 65536)
                 operand == IF mode \in {"Immediate", "Implicit", "Accumulator"} THEN NoFault
                            ELSE FirstPanic(<<ovf(1), r.panic, ReadU8Panic(r.addr)>>)
                 address == read_u16(x, (pc + 1) % 65536)
                 text == CASE ops.bytes = 2 ->
                                FirstPanic(<<ovf(1), ReadU8Panic((pc + 1) % 65536),
                                    IF mode \in TwoByteModes
                                    THEN NoFault
                                    ELSE Payload("Unexpected addressing mode {:?} for 2 byte instruction",
                                                 <<mode>>)>>)
                           [] ops.bytes = 3 ->
                                FirstPanic(<<ovf(1), ReadU8Panic((pc + 1) % 65536),
                                    ovf(2), ReadU8Panic((pc + 2) % 65536),
                                    ReadU16Panic((pc + 1) % 65536),
                                    CASE mode \notin ThreeByteModes ->
                                            Payload("Unexpected addressing mode {:?} for 3 byte instruction",
                                                    <<mode>>)
                                      [] mode = "Indirect" ->
                                            IF BitAnd(address, 255) = 255
                                            THEN FirstPanic(<<ReadU8Panic(address),
                                                              ReadU8Panic(BitAnd(address, 65280))>>)
                                            ELSE ReadU16Panic(address)
                                      [] OTHER -> NoFault>>)
                           [] OTHER -> NoFault
             IN  FirstPanic(<<operand, text>>)

----------------------------------------------------------------------------
(* Initial states: a cartridge image and a CPU state the program can be in *)
(* when the host enters the run loop.                                      *)

MaxInstructions == 2

Lo(w) == w % 256
Hi(w) == w \div 256

\* where the first instruction sits
Orgs == {32768, 33021, 65534}
\* the IRQ/BRK vector of the image
Vectors == {38912, 32768}
PrgLens == {16384, 32768}

BranchOpcodes == {144, 176, 240, 48, 208, 16, 80, 112}
BranchOffsets == {254, 16, 128}

\* the encodings of the first instruction
Instrs(org) ==
    {<<op, d>> : op \in BranchOpcodes, d \in BranchOffsets}
    \cup {<<76, Lo(t), Hi(t)>> : t \in {org, 36864, 8192}}
    \cup {<<108, 255, 145>>, <<108, 16, 145>>}
    \cup {<<32, Lo(t), Hi(t)>> : t \in {36864, org, (org + 3) % 65536, 8192}}
    \cup {<<op>> : op \in {96, 64, 0, 8, 40, 72, 104, 234, 154, 56, 120, 248, 136, 10}}
    \cup {<<op>> : op \in {2, 167, 235, 26}}
    \cup {<<8, 40>>}
    \cup {<<191, 255, 128>>, <<254, 255, 2>>}
    \cup {<<169, 128>>, <<105, 127>>, <<189, 255, 128>>, <<157, 0, 2>>, <<141, 0, 32>>,
          <<173, 2, 32>>, <<177, 16>>, <<230, 16>>, <<36, 16>>, <<201, 1>>, <<145, 16>>}

\* offset of a CPU address in a PRG image of the given length
PrgOffset(len, addr) ==
    IF len = 16384 THEN (addr - 32768) % 16384 ELSE addr - 32768

\* the image: NOP-filled as Rom::test_rom, an RTS at $9000, an RTI at $9800,
\* pointers for JMP (indirect) in page $91, the IRQ vector, and the first
\* instruction at org (written last)
Image(len, org, vector, instr) ==
    LET data == [a \in {36864, 38912, 37375, 37120, 37376, 37136, 37137, 65534, 65535} |->
                    CASE a = 36864 -> 96
                      [] a = 38912 -> 64
                      [] a = 37375 -> 205
                      [] a = 37120 -> 171
                      [] a = 37376 -> 153
                      [] a = 37136 -> Lo(org)
                      [] a = 37137 -> Hi(org)
                      [] a = 65534 -> Lo(vector)
                      [] a = 65535 -> Hi(vector)]
        code == {a \in {org + i - 1 : i \in 1..Len(instr)} : a <= 65535}
        ByteAt(a) == IF a \in code THEN instr[a - org + 1] ELSE data[a]
        addrs == (DOMAIN data) \cup code
        offs == {PrgOffset(len, a) : a \in addrs}
    IN  [o \in offs |->
            LET as == {a \in addrs : PrgOffset(len, a) = o}
            IN  IF as \cap code # {}
                THEN ByteAt(CHOOSE a \in as \cap code : TRUE)
                ELSE ByteAt(CHOOSE a \in as : \A b \in as : a >= b)]

\* the CPU on entry to the loop: A, X, Y, then P (B clear and U set, as reset
\* leaves them), SP, and the three bytes above the stack pointer, nearest
\* first; the first is the CPU as reset leaves it
Setups == {<<0, 0, 0, 36, 253, <<0, 0, 0>>>>,
           <<128, 1, 255, 227, 1, <<255, 255, 143>>>>,
           <<0, 0, 0, 109, 253, <<255, 255, 143>>>>,
           <<128, 1, 255, 36, 1, <<0, 0, 0>>>>}

InitialRam(sp, top) ==
    LET cells == [i \in 1..3 |-> STACK_BASE_ADDRESS + ((sp + i) % 256)]
        stack == {cells[i] : i \in {j \in 1..3 : top[j] # 0}}
        zp == IF top[1] = 0 THEN {} ELSE {16, 17}
    IN  [a \in stack \cup zp |->
            IF a = 16 THEN 255
            ELSE IF a = 17 THEN 2
            ELSE top[CHOOSE i \in 1..3 : cells[i] = a]]


\* no harness call made yet
NoCall == [count |-> 0, name |-> "", addr |-> None, value |-> None, result |-> None,
         touched |-> {}, pre |-> None]

Init ==
    /\ \E len \in PrgLens, org \in Orgs, vector \in Vectors :
         \E instr \in Instrs(org), s \in Setups :
            /\ rom = [prg_len |-> len, prg_fill |-> 234,
                      prg_bytes |-> Image(len, org, vector, instr)]
            /\ cpu = [program_counter |-> org, stack_pointer |-> s[5],
                      accumulator |-> s[1], x_register |-> s[2],
                      y_register |-> s[3], status_register |-> s[4],
                      cycles |-> 8, halted |-> FALSE,
                      internal_ram |-> InitialRam(s[5], s[6])]
    /\ overflow_checks \in BOOLEAN
    /\ callback \in {"noop", "trace"}
    /\ phase = "callback"
    /\ fault = NoFault
    /\ callbacks = 0
    /\ instructions = 0
    /\ seen = cpu
    /\ last = [pc |-> None, opcode |-> None, pre |-> cpu, panicked |-> FALSE]
    /\ prev = last
    /\ start = cpu
    /\ call = NoCall
    /\ pushed = <<>>
    /\ popped = <<>>

----------------------------------------------------------------------------
(* The run loop, one action per step of an iteration.                      *)

\* a loop whose callback runs once, ahead of the loop
LoopHeadAfterCallback == "fetch"

\* `loop { callback(self); ... }`: an iteration that ends goes back to the
\* head of the loop, where the callback is called
LoopHead == "callback"

\* a callback whose trace counts a cycle for the line it prints
CallbackCountingCycles ==
    /\ phase = "callback"
    /\ instructions < MaxInstructions
    /\ callbacks' = callbacks + 1
    /\ seen' = cpu
    /\ cpu' = IF callback = "trace" THEN [cpu EXCEPT !.cycles = cpu.cycles + 1] ELSE cpu
    /\ LET p == IF callback = "trace" THEN TracePanic(cpu) ELSE NoFault
       IN  /\ phase' = IF p = NoFault THEN "fetch" ELSE "panicked"
           /\ fault' = p
    /\ UNCHANGED <<rom, overflow_checks, callback, instructions, last, prev,
                   start, call, pushed, popped>>

\* callback(self) at the head of the loop
Callback ==
    /\ phase = "callback"
    /\ instructions < MaxInstructions
    /\ callbacks' = callbacks + 1
    /\ seen' = cpu
    /\ LET p == IF callback = "trace" THEN TracePanic(cpu) ELSE NoFault
       IN  /\ phase' = IF p = NoFault THEN "fetch" ELSE "panicked"
           /\ fault' = p
    /\ UNCHANGED <<cpu, rom, overflow_checks, callback, instructions, last, prev,
                   start, call, pushed, popped>>

\* fetch, decode, operand fetch, handler, cycle accounting, PC advance
Commit(x) ==
    /\ cpu' = CpuOf(x)
    /\ fault' = x.panic
    /\ phase' = IF Panicked(x) THEN "panicked" ELSE LoopHead
    /\ last' = [pc |-> cpu.program_counter,
                opcode |-> read_u8(Ctx(cpu), cpu.program_counter),
                pre |-> cpu,
                panicked |-> Panicked(x)]

Step ==
    /\ phase = "fetch"
    /\ Commit(Iteration(Ctx(cpu)))
    /\ prev' = last
    /\ instructions' = instructions + 1
    /\ UNCHANGED <<rom, overflow_checks, callback, callbacks, seen,
                   start, call, pushed, popped>>

Next == Callback \/ Step

Spec == Init /\ [][Next]_vars


----------------------------------------------------------------------------
(* The stack unit tests of cpu6502.rs (test_stack_push_pop_u8 and          *)
(* test_stack_push_pop_u16) for any stack pointer and any number of bytes: *)
(* a new CPU on the test ROM, then either push_u8 calls followed by as     *)
(* many pop_u8 calls, or one push_u16 and one pop_u16.                     *)

\* the longest run of pushes
MaxPushes == 257
\* the numbers of pushes after which the pops may start
Lengths == {1, 2, 3, MaxPushes - 1, MaxPushes}
\* the stack pointer the test starts with
StackStarts == {255, 253, 128, 1, 0}
\* the i-th byte pushed: any of three for the first, a fixed cycle after
PushBytes(i) == IF i <= 1 THEN {0, 171, 255} ELSE {<<17, 255, 0>>[(i % 3) + 1]}
\* the words pushed
Words == {0, 4660, 65280, 255, 65535, 32769}

\* new_cpu(bus)
new_cpu == [program_counter |-> 0, stack_pointer |-> STACK_ADDRESS_DEFAULT_COLD_START,
            accumulator |-> 0, x_register |-> 0, y_register |-> 0,
            status_register |-> 36, cycles |-> 0, halted |-> FALSE,
            internal_ram |-> [i \in {} |-> 0]]

\* Rom::test_rom(): 16 KiB of NOP
test_rom == [prg_len |-> 16384, prg_fill |-> 234, prg_bytes |-> [i \in {} |-> 0]]

\* the run loop is not entered by the unit tests
Idle ==
    /\ callback = "noop"
    /\ fault = NoFault
    /\ callbacks = 0
    /\ instructions = 0
    /\ seen = cpu
    /\ last = [pc |-> None, opcode |-> None, pre |-> cpu, panicked |-> FALSE]
    /\ prev = last
    /\ start = cpu
    /\ call = NoCall
    /\ pushed = <<>>
    /\ popped = <<>>

StackInit ==
    /\ \E sp \in StackStarts : cpu = [new_cpu EXCEPT !.stack_pointer = sp]
    /\ rom = test_rom
    /\ overflow_checks \in BOOLEAN
    /\ phase \in {"push_u8", "push_u16"}
    /\ Idle

\* cpu.push_u8(b)
TestPushU8 ==
    /\ phase = "push_u8"
    /\ Len(pushed) < MaxPushes
    /\ \E b \in PushBytes(Len(pushed) + 1) :
        /\ cpu' = CpuOf(push_u8(Ctx(cpu), b))
        /\ pushed' = Append(pushed, b)
        /\ call' = [count |-> call.count + 1, name |-> "push_u8", addr |-> None,
                    value |-> b, result |-> None,
                    touched |-> {stack_addr(cpu.stack_pointer)}, pre |-> cpu]
    /\ UNCHANGED <<rom, overflow_checks, callback, phase, fault, callbacks, instructions,
                   seen, last, prev, start, popped>>

\* a pop returned: the CPU after it and the value handed back
Returned(name, r, addrs) ==
    /\ cpu' = CpuOf(r.ctx)
    /\ popped' = Append(popped, r.value)
    /\ call' = [count |-> call.count + 1, name |-> name, addr |-> None, value |-> None,
                result |-> r.value, touched |-> addrs, pre |-> cpu]

\* cpu.pop_u8(), once the pushes are over
TestPopU8 ==
    /\ \/ phase = "pop_u8"
       \/ phase = "push_u8" /\ Len(pushed) \in Lengths
    /\ Len(popped) < Len(pushed)
    /\ Returned("pop_u8", pop_u8(Ctx(cpu)), {stack_addr((cpu.stack_pointer + 1) % 256)})
    /\ phase' = "pop_u8"
    /\ UNCHANGED <<rom, overflow_checks, callback, fault, callbacks, instructions,
                   seen, last, prev, start, pushed>>

\* cpu.push_u16(w)
TestPushU16 ==
    /\ phase = "push_u16"
    /\ \E w \in Words :
        /\ cpu' = CpuOf(push_u16(Ctx(cpu), w))
        /\ pushed' = Append(pushed, w)
        /\ call' = [count |-> call.count + 1, name |-> "push_u16", addr |-> None,
                    value |-> w, result |-> None,
                    touched |-> {stack_addr(cpu.stack_pointer),
                                 stack_addr((cpu.stack_pointer + 255) % 256)},
                    pre |-> cpu]
    /\ phase' = "pop_u16"
    /\ UNCHANGED <<rom, overflow_checks, callback, fault, callbacks, instructions,
                   seen, last, prev, start, popped>>

\* cpu.pop_u16()
TestPopU16 ==
    /\ phase = "pop_u16"
    /\ Len(popped) < Len(pushed)
    /\ Returned("pop_u16", pop_u16(Ctx(cpu)),
                {stack_addr((cpu.stack_pointer + 1) % 256),
                 stack_addr((cpu.stack_pointer + 2) % 256)})
    /\ UNCHANGED <<rom, overflow_checks, callback, phase, fault, callbacks, instructions,
                   seen, last, prev, start, pushed>>

StackNext == TestPushU8 \/ TestPopU8 \/ TestPushU16 \/ TestPopU16

StackSpec == StackInit /\ [][StackNext]_vars

----------------------------------------------------------------------------
(* The bus driven directly, as the unit tests do with cpu.write_u8 and     *)
(* cpu.read_u8: a new CPU on a cartridge image, then a few reads and       *)
(* writes of bytes and words at addresses of every region of the map.      *)

\* the number of calls made
MaxBusCalls == 3
\* RAM and its mirrors, the PPU window, the other stubbed regions, PRG-ROM
BusAddrs == {0, 2047, 2048, 8191, 8192, 16384, 32767, 32768, 53248, 65535}
BusBytes == {171, 0}
BusWords == {4660, 65280}

BusInit ==
    /\ cpu = new_cpu
    /\ \E len \in PrgLens :
         rom = [prg_len |-> len, prg_fill |-> 234,
                prg_bytes |-> Image(len, 32768, 38912, <<234>>)]
    /\ overflow_checks \in BOOLEAN
    /\ phase = "bus"
    /\ Idle

\* a bus call returned or panicked: the CPU after it and what it handed back
BusCalled(name, a, v, x, result, next) ==
    /\ cpu' = CpuOf(x)
    /\ fault' = x.panic
    /\ phase' = IF Panicked(x) THEN "panicked" ELSE next
    /\ call' = [count |-> call.count + 1, name |-> name, addr |-> a, value |-> v,
                result |-> IF Panicked(x) THEN None ELSE result,
                touched |-> {a}, pre |-> cpu]
    /\ UNCHANGED <<rom, overflow_checks, callback, callbacks, instructions,
                   seen, last, prev, start, pushed, popped>>

\* cpu.write_u8(a, v)
TestWriteU8 ==
    /\ phase = "bus"
    /\ call.count < MaxBusCalls
    /\ \E a \in BusAddrs, v \in BusBytes :
         BusCalled("write_u8", a, v, write_u8(Ctx(cpu), a, v), None, "bus")

\* cpu.read_u8(a)
TestReadU8 ==
    /\ phase = "bus"
    /\ call.count < MaxBusCalls
    /\ \E a \in BusAddrs :
         BusCalled("read_u8", a, None,
                   IF BusReadPanics(a) THEN Panic(Ctx(cpu), PPU_TODO) ELSE Ctx(cpu),
                   read_u8(Ctx(cpu), a), "bus")

\* cpu.write_u16(a, w)
TestWriteU16 ==
    /\ phase = "bus"
    /\ call.count < MaxBusCalls
    /\ \E a \in BusAddrs, w \in BusWords :
         BusCalled("write_u16", a, w, write_u16(Ctx(cpu), a, w), None, "written_u16")

\* cpu.read_u16(a) of the word just written
TestReadU16 ==
    /\ phase = "written_u16"
    /\ BusCalled("read_u16", call.addr, call.value,
                 Panic(Ctx(cpu), ReadU16Panic(call.addr)),
                 read_u16(Ctx(cpu), call.addr), "bus")

BusNext == TestWriteU8 \/ TestReadU8 \/ TestWriteU16 \/ TestReadU16

BusSpec == BusInit /\ [][BusNext]_vars

----------------------------------------------------------------------------
(* The handlers called directly, as the unit tests under instructions/ do: *)
(* a new CPU with its registers set, the operand written to memory, then   *)
(* handle_xxx(Some(cpu.read_u8(addr)), Some(addr)); and reset(), from the  *)
(* new CPU or after a handler.                                             *)

\* bytes at the edges of the carry, the sign and the nibble
ByteSamples == {0, 1, 15, 48, 64, 80, 127, 128, 129, 176, 208, 254, 255}
\* P with B clear and U set: both values of C and of D, and every flag set
StatusSamples == {36, 37, 44, 45, 231, 238}
\* the X and Y registers
IndexSamples == {<<0, 0>>, <<255, 127>>, <<127, 255>>}
\* the reset vector of the image
ResetVectors == {49152, 33021}
\* where the operand lies: internal RAM ($0010) and PRG-ROM ($9000)
OperandAddrs == {16, 36864}

\* the handlers called with a memory operand, with the accumulator as the
\* operand, and with no operand
MemoryNames == {"ADC", "SBC", "ISC", "RRA", "ASL", "LSR", "ROL", "INC", "DEC",
                "LAX", "DCP", "SLO", "RLA", "SRE"}
AccumulatorNames == {"ASL", "LSR", "ROL"}
ImplicitNames == {"INX", "INY", "DEY", "TXS"}
\* the stores, called with the byte read at their target and its address
StoreNames == {"STA", "STY", "AAX"}

\* the handler a test calls next on the same operand
Sequel(name) ==
    CASE name = "INY" -> {"DEY"}
      [] name = "INC" -> {"DEC"}
      [] OTHER -> {}

HandlerInit ==
    /\ \E acc \in ByteSamples, p \in StatusSamples, xy \in IndexSamples :
         cpu = [new_cpu EXCEPT !.accumulator = acc, !.status_register = p,
                               !.x_register = xy[1], !.y_register = xy[2]]
    /\ \E v \in ResetVectors :
         rom = [prg_len |-> 16384, prg_fill |-> 234,
                prg_bytes |-> Image(16384, RESET_VECTOR_ADDRESS, 38912, <<Lo(v), Hi(v)>>)]
    /\ overflow_checks \in BOOLEAN
    /\ phase = "handler"
    /\ Idle

\* a handler or reset returned: the CPU after it; pre is the CPU it was
\* called on, v and a the operand it was given
HandlerReturned(name, pre, v, a, x) ==
    /\ cpu' = CpuOf(x)
    /\ fault' = x.panic
    /\ phase' = IF Panicked(x) THEN "panicked"
                ELSE IF phase = "handler" THEN "called" ELSE "done"
    /\ call' = [count |-> call.count + 1, name |-> name, addr |-> a, value |-> v,
                result |-> None, touched |-> {}, pre |-> pre]
    /\ prev' = call
    /\ UNCHANGED <<rom, overflow_checks, callback, callbacks, instructions,
                   seen, last, start, pushed, popped>>

\* handle_xxx(Some(v), Some(a)), handle_xxx(Some(v), None) or
\* handle_xxx(None, None)
HandlerCalled(name, pre, v, a) ==
    HandlerReturned(name, pre, v, a, HandlerOf(name, Ctx(pre), v, a).ctx)

\* handle_xxx(Some(cpu.read_u8(a)), Some(a))
CalledOnMemory(name, pre, a) == HandlerCalled(name, pre, read_u8(Ctx(pre), a), a)

\* the call without an address: the accumulator as the operand, or none
CalledWithoutAddress(name, pre) ==
    HandlerCalled(name, pre, IF name \in AccumulatorNames THEN pre.accumulator ELSE None,
                  None)

\* cpu.write_u8(a, m); cpu.handle_xxx(Some(cpu.read_u8(a)), Some(a))
TestMemoryHandler ==
    /\ phase = "handler"
    /\ \E name \in MemoryNames, a \in OperandAddrs, m \in ByteSamples :
         CalledOnMemory(name, CpuOf(write_u8(Ctx(cpu), a, m)), a)

\* cpu.handle_xxx(Some(cpu.accumulator), None) and cpu.handle_xxx(None, None)
TestRegisterHandler ==
    /\ phase = "handler"
    /\ \E name \in AccumulatorNames \cup ImplicitNames :
         CalledWithoutAddress(name, cpu)

\* cpu.handle_sta(Some(cpu.read_u8(a)), Some(a)) on memory as it is
TestStoreHandler ==
    /\ phase = "handler"
    /\ \E name \in StoreNames, a \in OperandAddrs :
         CalledOnMemory(name, cpu, a)

\* the modes resolved directly and the operand of each, which is put at $0020
ResolveModes == {"ZeroPageX", "ZeroPageY", "IndirectX", "IndirectY", "AbsoluteX", "AbsoluteY"}
ResolveArgs(mode) ==
    IF mode \in {"AbsoluteX", "AbsoluteY"} THEN {512, 767} ELSE {0, 128, 255}

\* the memory the resolver tests set up: a pointer $0334 lying across the
\* end of page zero ($34 at $FF, $03 at $00), $05 at $0100, and the operand
Pointers(x, arg) ==
    write_u16(write_u8(write_u8(write_u8(x, 255, 52), 0, 3), 256, 5), 32, arg)

\* get_operand_address returned r: the CPU is as the writes left it
Resolving(mode, pre, r) ==
    /\ cpu' = pre
    /\ fault' = r.panic
    /\ phase' = IF r.panic # NoFault THEN "panicked" ELSE "resolved"
    /\ call' = [count |-> call.count + 1, name |-> mode, addr |-> 32,
                value |-> None, result |-> r, touched |-> {}, pre |-> pre]
    /\ prev' = call
    /\ UNCHANGED <<rom, overflow_checks, callback, callbacks, instructions,
                   seen, last, start, pushed, popped>>

Resolve(mode, pre) == Resolving(mode, pre, get_operand_address(Ctx(pre), mode, 32))

\* cpu.write_u8(..); cpu.get_operand_address(mode, addr)
TestResolve ==
    /\ phase = "handler"
    /\ \E mode \in ResolveModes :
         \E arg \in ResolveArgs(mode) :
            Resolve(mode, CpuOf(Pointers(Ctx(cpu), arg)))

\* the unofficial stores and the mode of each
IndexedStores == {<<"SXA", "AbsoluteY">>, <<"SYA", "AbsoluteX">>, <<"XAS", "AbsoluteY">>}

\* the handler called as the loop calls it, on the address just resolved
TestIndexedStore ==
    /\ phase = "resolved"
    /\ \E s \in IndexedStores :
         /\ s[2] = call.name
         /\ CalledOnMemory(s[1], cpu, call.result.addr)

\* the second handler of a test, on the operand of the first
TestSequel ==
    /\ phase = "called"
    /\ \E name \in Sequel(call.name) :
         IF call.addr = None THEN CalledWithoutAddress(name, cpu)
         ELSE CalledOnMemory(name, cpu, call.addr)

\* cpu.reset()
TestReset ==
    /\ phase \in {"handler", "called"}
    /\ HandlerReturned("reset", cpu, None, None, Ctx(reset(cpu)))

HandlerNext ==
    \/ TestMemoryHandler \/ TestRegisterHandler \/ TestStoreHandler
    \/ TestResolve \/ TestIndexedStore
    \/ TestSequel \/ TestReset

HandlerSpec == HandlerInit /\ [][HandlerNext]_vars
----------------------------------------------------------------------------
(* Properties.                                                             *)

\* the last loop iteration ran its instruction to the end
Executed == last.pc # None /\ ~last.panicked
PrevExecuted == prev.pc # None /\ ~prev.panicked

\* the context the last instruction started in, and the byte after its opcode
Pre == Ctx(last.pre)
OperandByte == read_u8(Pre, (last.pc + 1) % 65536)

\* the byte at stack slot sp of a context
StackByte(x, sp) == read_u8(x, STACK_BASE_ADDRESS + ((sp + 256) % 256))

\* C1: starting from reset's P = $24, in every state of the run loop, so
\* after any sequence of instructions, bit 4 (B) of P is 0 and bit 5 (U) is
\* 1; PLP and RTI do not load either bit from the stack.
C1_BreakClearUnusedSet ==
    /\ Bit(cpu.status_register, BreakCommand) = 0
    /\ Bit(cpu.status_register, Unused) = 1

\* PLP or RTI has popped $FF (B set) and P holds $EF
C1_Witness ==
    /\ Executed
    /\ last.opcode \in {40, 64}
    /\ StackByte(Pre, last.pre.stack_pointer + 1) = 255
    /\ cpu.status_register = 239

\* C2: no step of run_with_callback lowers the cycle counter, and a loop
\* iteration that executes its instruction raises it by at least 2.
C2_CyclesGrow ==
    [][ /\ cpu'.cycles >= cpu.cycles
        /\ (phase = "fetch" /\ phase' # "panicked") => cpu'.cycles >= cpu.cycles + 2 ]_vars

\* an instruction has been executed at the minimum cost of 2 cycles
C2_Witness == Executed /\ cpu.cycles = last.pre.cycles + 2

\* C3: callbacks and instruction executions alternate, starting with a
\* callback: at the head of the loop as many callbacks as iterations have
\* run, past the callback one more; the CPU handed to the callback is the
\* CPU as the previous instruction left it, and it is the CPU the next
\* instruction starts from.
C3_CallbackAlternates ==
    /\ phase = "callback" => callbacks = instructions
    /\ phase = "fetch" => callbacks = instructions + 1
    /\ callbacks \in {instructions, instructions + 1}
    /\ callbacks = instructions + 1 => seen = cpu
    /\ (callbacks = instructions /\ instructions > 0) => seen = last.pre

\* two iterations done, each preceded by its callback, the second on a CPU
\* the first one changed
C3_Witness ==
    /\ phase = "callback"
    /\ instructions = 2
    /\ callbacks = 2
    /\ Executed /\ PrevExecuted
    /\ last.pre # prev.pre
    /\ seen = last.pre

KIL_OPCODES == {2, 18, 34, 50, 66, 82, 98, 114, 146, 178, 210, 242}

\* C4: a loop iteration that fetched a KIL/JAM opcode sets halted and ends
\* the loop cleanly, and a halted CPU executes nothing further.
C4_KilHalts ==
    /\ (last.pc # None /\ last.opcode \in KIL_OPCODES) => (cpu.halted /\ phase # "panicked")
    /\ cpu.halted => phase \notin {"callback", "fetch"}

\* C5 as stated: a fetched byte without a table entry ends the loop in a
\* fault that reports the opcode and the PC, the CPU left as it was.
C5_ReportsOpcodeAndPc ==
    (last.pc # None /\ last.opcode \notin DOMAIN OPERAND_MAP) =>
        /\ phase = "panicked"
        /\ \E i, j \in DOMAIN fault.args :
              i # j /\ fault.args[i] = last.opcode /\ fault.args[j] = last.pc
        /\ cpu = last.pre

\* C5: a fetched byte without a table entry ends the loop in a panic whose
\* message reports the opcode (and nothing else), and the failed iteration
\* leaves every register, flag, memory byte and the cycle counter as it was.
C5_ReportsOpcode ==
    (last.pc # None /\ last.opcode \notin DOMAIN OPERAND_MAP) =>
        /\ phase = "panicked"
        /\ fault.msg = "Unimplemented opcode: {:02X}"
        /\ fault.args = <<last.opcode>>
        /\ cpu = last.pre

\* the loop fetched the unlisted byte $02 and panicked reporting it
C5_Witness ==
    /\ last.opcode = 2
    /\ phase = "panicked"
    /\ fault.args = <<2>>
    /\ instructions = 1

\* the unofficial opcodes of section 4.4, family by family
UNOFFICIAL_NOP == {26, 58, 90, 122, 218, 250, 128, 130, 137, 194, 226, 4, 68, 100,
                   20, 52, 84, 116, 212, 244, 12, 28, 60, 92, 124, 220, 252}
UNOFFICIAL_LAX == {167, 183, 175, 191, 163, 179}
UNOFFICIAL_SAX == {135, 151, 143, 131}
UNOFFICIAL_DCP == {199, 215, 207, 223, 219, 195, 211}
UNOFFICIAL_ISC == {231, 247, 239, 255, 251, 227, 243}
UNOFFICIAL_SLO == {7, 23, 15, 31, 27, 3, 19}
UNOFFICIAL_RLA == {39, 55, 47, 63, 59, 35, 51}
UNOFFICIAL_SRE == {71, 87, 79, 95, 91, 67, 83}
UNOFFICIAL_RRA == {103, 119, 111, 127, 123, 99, 115}
UNOFFICIAL_OTHER == {235, 11, 43, 75, 107, 203, 171, 139, 158, 156, 155, 187, 159, 147}
RequiredUnofficial ==
    UNOFFICIAL_NOP \cup UNOFFICIAL_LAX \cup UNOFFICIAL_SAX \cup UNOFFICIAL_DCP
    \cup UNOFFICIAL_ISC \cup UNOFFICIAL_SLO \cup UNOFFICIAL_RLA \cup UNOFFICIAL_SRE
    \cup UNOFFICIAL_RRA \cup UNOFFICIAL_OTHER \cup KIL_OPCODES

\* C6: fetching an official opcode or one of the required unofficial ones
\* never ends in the unknown-opcode fault.
C6_RequiredOpcodesKnown ==
    (last.pc # None /\ last.opcode \in (DOMAIN OPERAND_MAP) \cup RequiredUnofficial) =>
        fault.msg # "Unimplemented opcode: {:02X}"

\* the condition each branch opcode tests, on a status byte
BranchHolds(opcode, p) ==
    CASE opcode = 144 -> Bit(p, Carry) = 0
      [] opcode = 176 -> Bit(p, Carry) = 1
      [] opcode = 240 -> Bit(p, Zero) = 1
      [] opcode = 208 -> Bit(p, Zero) = 0
      [] opcode = 48 -> Bit(p, Negative) = 1
      [] opcode = 16 -> Bit(p, Negative) = 0
      [] opcode = 80 -> Bit(p, Overflow) = 0
      [] opcode = 112 -> Bit(p, Overflow) = 1

\* C7: after the loop executed a branch at p with offset d, PC is
\* (p + 2 + d) mod 65536 if the tested condition held and p + 2 if not.
C7_BranchTarget ==
    (Executed /\ last.opcode \in BranchOpcodes) =>
        cpu.program_counter =
            IF BranchHolds(last.opcode, last.pre.status_register)
            THEN (last.pc + 2 + AsI8(OperandByte) + 65536) % 65536
            ELSE (last.pc + 2) % 65536

\* C8: after the loop executed JMP (Absolute or Indirect), PC is the
\* resolved effective address.
C8_JmpTarget ==
    (Executed /\ last.opcode \in {76, 108}) =>
        cpu.program_counter =
            get_operand_address(Pre, OPERAND_MAP[last.opcode].addressing_mode,
                                (last.pc + 1) % 65536).addr

\* C9: handle_jsr, called for a JSR at p, pushes the word p + 2 (high byte
\* first) and sets PC to the target, the word after the opcode; handle_rts
\* called on the stack JSR left sets PC to p + 3 and SP to its value before
\* the JSR.
C9_JsrRtsRoundTrip ==
    (Executed /\ last.opcode = 32) =>
        LET target == from_le_bytes(OperandByte, read_u8(Pre, (last.pc + 2) % 65536))
            sp == last.pre.stack_pointer
            j == handle_jsr(Pre, read_u8(Pre, target), target).ctx
            r == handle_rts(j, None, None).ctx
        IN  /\ j.program_counter = target
            /\ StackByte(j, sp) = Hi((last.pc + 2) % 65536)
            /\ StackByte(j, sp - 1) = Lo((last.pc + 2) % 65536)
            /\ j.stack_pointer = (sp + 254) % 256
            /\ r.program_counter = (last.pc + 3) % 65536
            /\ r.stack_pointer = sp
            /\ cpu.stack_pointer = j.stack_pointer
            /\ cpu.internal_ram = j.internal_ram

\* the loop ran JSR and then the RTS at its target: PC is back after the
\* JSR and SP is what it was
C9_Witness ==
    /\ Executed /\ PrevExecuted
    /\ prev.opcode = 32
    /\ last.opcode = 96
    /\ cpu.program_counter = prev.pc + 3
    /\ cpu.stack_pointer = prev.pre.stack_pointer
    /\ prev.pre.stack_pointer = 1

\* C10: handle_brk, called for a BRK at p with status P, pushes the word
\* p + 2, then the byte P | $30, sets I in P and leaves B as it was, lowers
\* SP by 3 (mod 256) and loads PC from the word at $FFFE/$FFFF.
C10_Brk ==
    (Executed /\ last.opcode = 0) =>
        LET sp == last.pre.stack_pointer
            p == last.pre.status_register
            b == handle_brk(Pre, None, None).ctx
        IN  /\ StackByte(b, sp) = Hi((last.pc + 2) % 65536)
            /\ StackByte(b, sp - 1) = Lo((last.pc + 2) % 65536)
            /\ StackByte(b, sp - 2) = BitOr(p, 48)
            /\ b.status_register = BitOr(p, 4)
            /\ Bit(b.status_register, BreakCommand) = Bit(p, BreakCommand)
            /\ b.stack_pointer = (sp + 253) % 256
            /\ b.program_counter = read_u8(Pre, 65534) + 256 * read_u8(Pre, 65535)
            /\ cpu.stack_pointer = b.stack_pointer
            /\ cpu.status_register = b.status_register
            /\ cpu.internal_ram = b.internal_ram

\* the loop ran BRK with I clear and SP = $01, so that the three pushes wrap
\* around the stack page, and went to the handler at $9800
C10_Witness ==
    /\ Executed
    /\ last.opcode = 0
    /\ last.pre.stack_pointer = 1
    /\ last.pre.status_register = 227
    /\ cpu.status_register = 231
    /\ cpu.stack_pointer = 254
    /\ cpu.program_counter = 38912
    /\ StackByte(Ctx(cpu), 255) = BitOr(last.pre.status_register, 48)


\* C11: handle_rti pops P, keeping bits 4 and 5 of the register, and then
\* pops PC with nothing added; so handle_brk for a BRK at p followed
\* directly by handle_rti leaves PC = p + 2 (mod 65536) and SP and P as
\* they were before the BRK.
C11_BrkRti ==
    /\ (Executed /\ last.opcode = 64) =>
            LET sp == last.pre.stack_pointer
                r == handle_rti(Pre, None, None).ctx
            IN  /\ r.status_register =
                        BitOr(BitAnd(StackByte(Pre, sp + 1), 207),
                              BitAnd(last.pre.status_register, 48))
                /\ r.program_counter =
                        from_le_bytes(StackByte(Pre, sp + 2), StackByte(Pre, sp + 3))
                /\ r.stack_pointer = (sp + 3) % 256
                /\ cpu.status_register = r.status_register
                /\ cpu.stack_pointer = r.stack_pointer
    /\ (Executed /\ last.opcode = 0) =>
            LET r == handle_rti(handle_brk(Pre, None, None).ctx, None, None).ctx
            IN  /\ r.program_counter = (last.pc + 2) % 65536
                /\ r.stack_pointer = last.pre.stack_pointer
                /\ r.status_register = last.pre.status_register

\* the loop ran BRK with I clear and SP = $01 and then the RTI at the
\* vector's target: PC is p + 2, SP and P are what they were
C11_Witness ==
    /\ Executed /\ PrevExecuted
    /\ prev.opcode = 0
    /\ last.opcode = 64
    /\ prev.pre.stack_pointer = 1
    /\ prev.pre.status_register = 227
    /\ last.pre.status_register = 231
    /\ cpu.program_counter = prev.pc + 2
    /\ cpu.stack_pointer = 1
    /\ cpu.status_register = 227

\* C12: PHP pushes P with bits 4 and 5 set and leaves P alone; PLP loads
\* bits 0-3, 6 and 7 from the popped byte and keeps bits 4 and 5 of P; so
\* handle_plp straight after handlePHP leaves P and SP as they were.
C12_PhpPlp ==
    /\ (Executed /\ last.opcode = 8) =>
            LET sp == last.pre.stack_pointer
                h == handle_php(Pre, None, None).ctx
                l == handle_plp(h, None, None).ctx
            IN  /\ StackByte(h, sp) = BitOr(last.pre.status_register, 48)
                /\ h.status_register = last.pre.status_register
                /\ h.stack_pointer = (sp + 255) % 256
                /\ cpu.status_register = h.status_register
                /\ cpu.stack_pointer = h.stack_pointer
                /\ cpu.internal_ram = h.internal_ram
                /\ l.status_register = last.pre.status_register
                /\ l.stack_pointer = sp
    /\ (Executed /\ last.opcode = 40) =>
            LET sp == last.pre.stack_pointer
            IN  /\ cpu.status_register =
                        BitOr(BitAnd(StackByte(Pre, sp + 1), 207),
                              BitAnd(last.pre.status_register, 48))
                /\ cpu.stack_pointer = (sp + 1) % 256

\* the loop ran PHP and then PLP with SP = $01: P and SP are what they were,
\* and the byte PHP left on the stack has B and U set
C12_Witness ==
    /\ Executed /\ PrevExecuted
    /\ prev.opcode = 8
    /\ last.opcode = 40
    /\ prev.pre.stack_pointer = 1
    /\ prev.pre.status_register = 227
    /\ StackByte(Ctx(cpu), 1) = 243
    /\ cpu.status_register = 227
    /\ cpu.stack_pointer = 1

\* the pops so far returned the pushed values last-in first-out
LastInFirstOut ==
    \A j \in 1..Len(popped) : popped[j] = pushed[Len(pushed) - j + 1]

\* once every pushed value is popped the stack pointer is where it started
StackPointerBack ==
    (Len(popped) = Len(pushed)) => cpu.stack_pointer = start.stack_pointer

\* C13 as stated: for every starting SP and every sequence b1..bn pushed
\* with push_u8, the n following pop_u8 calls return bn..b1 and SP ends at
\* its starting value.
C13_PushPopAnyLength ==
    (phase \in {"push_u8", "pop_u8"}) => (LastInFirstOut /\ StackPointerBack)

\* C13, amended: the same for sequences of at most 256 bytes, the size of
\* the stack page; SP ends at its starting value for every length.
C13_PushPop ==
    (phase \in {"push_u8", "pop_u8"}) =>
        /\ (Len(pushed) <= 256) => LastInFirstOut
        /\ StackPointerBack

\* 256 bytes pushed from SP = $01, around the whole stack page, and all
\* popped again
C13_Witness ==
    /\ phase = "pop_u8"
    /\ start.stack_pointer = 1
    /\ Len(pushed) = 256
    /\ Len(popped) = 256
    /\ popped[256] = pushed[1]
    /\ cpu.stack_pointer = 1

\* C14: for every word w and every SP, SP = $00 and $01 included,
\* push_u16(w) followed by pop_u16() returns w and SP is what it was.
C14_PushPopU16 ==
    (call.name = "pop_u16") =>
        /\ call.result = pushed[1]
        /\ cpu.stack_pointer = start.stack_pointer

\* $1234 pushed at SP = $00: the high byte went to $0100, the low byte
\* around the page to $01FF, and the pop returned $1234 with SP = $00
C14_Witness ==
    /\ call.name = "pop_u16"
    /\ start.stack_pointer = 0
    /\ pushed = <<4660>>
    /\ read_u8(Ctx(cpu), 256) = 18
    /\ read_u8(Ctx(cpu), 511) = 52
    /\ call.result = 4660
    /\ cpu.stack_pointer = 0

\* C15: every bus address push_u8, pop_u8, push_u16 and pop_u16 read or
\* write lies in $0100..$01FF, for every SP and across its wrap-around;
\* nothing outside that page is written.
C15_StackPage ==
    /\ call.touched \subseteq 256..511
    /\ \A a \in DOMAIN cpu.internal_ram : a \in 256..511

\* push_u16 at SP = $00 wrote $0100 and $01FF
C15_Witness ==
    /\ call.name = "push_u16"
    /\ call.pre.stack_pointer = 0
    /\ call.value = 65535
    /\ call.touched = {256, 511}
    /\ DOMAIN cpu.internal_ram = {256, 511}

\* C16 as stated: for every address a in $0000..$1FFF and every word w,
\* write_u16(a, w) followed by read_u16(a) returns w.
C16_WordRoundTripAllRam ==
    (call.name \in {"write_u16", "read_u16"} /\ call.addr <= 8191) =>
        /\ phase # "panicked"
        /\ (call.name = "read_u16") => call.result = call.value

\* C16, amended: the same for a in $0000..$1FFE, where both bytes of the
\* word are in RAM.
C16_WordRoundTrip ==
    (call.name \in {"write_u16", "read_u16"} /\ call.addr <= 8190) =>
        /\ phase # "panicked"
        /\ (call.name = "read_u16") => call.result = call.value

\* $1234 written at $07FF, the last byte of the first RAM image: the high
\* byte went to $0800, the mirror of $0000, and the word read back is $1234
C16_Witness ==
    /\ call.name = "read_u16"
    /\ call.addr = 2047
    /\ call.value = 4660
    /\ call.pre.internal_ram = (0 :> 18 @@ 2047 :> 52)
    /\ call.result = 4660

\* the address of a RAM byte in image k of the four
MirrorOf(a, k) == BitOr(BitAnd(a, 2047), k * 2048)

\* RAM addresses to look at: the ones the calls use and every image of
\* every byte that is not zero
RamProbes ==
    {a \in BusAddrs : a <= 8191}
    \cup {MirrorOf(i, k) : i \in DOMAIN cpu.internal_ram, k \in 0..3}

\* C17: after any sequence of bus writes, every a in $0000..$1FFF reads the
\* same through each of its four images, (a & $07FF) | (k << 11) for k in
\* 0..3, and a byte written through one image is read through all four.
C17_RamMirrors ==
    /\ \A a \in RamProbes : \A k \in 0..3 :
            read_u8(Ctx(cpu), a) = read_u8(Ctx(cpu), MirrorOf(a, k))
    /\ (call.name = "write_u8" /\ call.addr <= 8191) =>
            \A k \in 0..3 : read_u8(Ctx(cpu), MirrorOf(call.addr, k)) = call.value

\* $AB written at $1FFF, in the last image, after an earlier write: it reads
\* back at $07FF, $0FFF, $17FF and $1FFF
C17_Witness ==
    /\ call.count >= 2
    /\ call.name = "write_u8"
    /\ call.addr = 8191
    /\ call.value = 171
    /\ call.pre.internal_ram # cpu.internal_ram
    /\ \A a \in {2047, 4095, 6143, 8191} : read_u8(Ctx(cpu), a) = 171

\* prg_rom[i]
PrgByte(i) == IF i \in DOMAIN rom.prg_bytes THEN rom.prg_bytes[i] ELSE rom.prg_fill

\* offsets into cartridge space to look at: the ends of both halves and
\* every byte of the image that is not the fill byte, in both halves
PrgProbes ==
    {0, 16383, 16384, 32767}
    \cup {i \in DOMAIN rom.prg_bytes : i <= 32767}
    \cup {i + 16384 : i \in {j \in DOMAIN rom.prg_bytes : j < 16384}}

\* C18: with a PRG-ROM of length L in {16384, 32768}, read($8000 + i) is
\* prg_rom[i mod L] for every i in 0..$7FFF; a 16 KiB image reads the same
\* at $8000 + i and $C000 + i.
C18_PrgMapping ==
    /\ rom.prg_len \in {16384, 32768}
    /\ \A i \in PrgProbes :
            read_u8(Ctx(cpu), 32768 + i) = PrgByte(i % rom.prg_len)
    /\ (rom.prg_len = 16384) =>
            \A i \in {j \in PrgProbes : j < 16384} :
                read_u8(Ctx(cpu), 32768 + i) = read_u8(Ctx(cpu), 49152 + i)
    /\ (call.name = "read_u8" /\ call.addr >= 32768) =>
            /\ phase # "panicked"
            /\ call.result = PrgByte((call.addr - 32768) % rom.prg_len)

\* a 16 KiB image with $60 at offset $1000: read_u8($D000) returned it
C18_Witness ==
    /\ rom.prg_len = 16384
    /\ PrgByte(4096) = 96
    /\ call.name = "read_u8"
    /\ call.addr = 53248
    /\ call.result = 96

\* C19: for every address in the stubbed regions $2000..$7FFF a read
\* returns 0 and a write changes nothing, and neither aborts.
C19_StubbedRegions ==
    (call.name \in {"read_u8", "write_u8"} /\ call.addr \in 8192..32767) =>
        /\ phase # "panicked"
        /\ (call.name = "read_u8") => call.result = 0
        /\ (call.name = "write_u8") => cpu = call.pre

----------------------------------------------------------------------------
(* Properties of reset and of the handlers called directly.                *)

\* a byte read as a two's complement number
Signed(b) == IF b >= 128 THEN b - 256 ELSE b

\* the flag as 0 or 1, from a truth value
Flag(b) == IF b THEN 1 ELSE 0

\* Z and N of a CPU are those of the result byte r
ZeroNegativeOf(c, r) ==
    /\ Bit(c.status_register, Zero) = Flag(r = 0)
    /\ Bit(c.status_register, Negative) = r \div 128

\* C21: reset(), from any state, leaves A = 0, X = 0, P = $24, SP = $FD,
\* cycles = 8 and PC = the little-endian word at $FFFC/$FFFD; a second
\* reset right after the first changes nothing.
C21_Reset ==
    (call.name = "reset") =>
        /\ cpu.accumulator = 0
        /\ cpu.x_register = 0
        /\ cpu.status_register = 36
        /\ cpu.stack_pointer = 253
        /\ cpu.cycles = 8
        /\ cpu.program_counter =
                read_u8(Ctx(call.pre), 65532) + 256 * read_u8(Ctx(call.pre), 65533)
        /\ (call.count = 2 /\ prev.name = "reset") => cpu = call.pre

\* reset called twice on a CPU whose A, X and P were not those of reset,
\* with $80FD in the vector
C21_Witness ==
    /\ call.count = 2
    /\ call.name = "reset"
    /\ prev.name = "reset"
    /\ start.accumulator = 128
    /\ start.x_register = 255
    /\ start.status_register = 238
    /\ cpu.program_counter = 33021
    /\ cpu = call.pre

\* C22: ADC on accumulator A, operand M and carry-in C leaves
\* A' = (A + M + C) mod 256, C' = 1 iff A + M + C > 255, Z' = 1 iff A' = 0,
\* N' = bit 7 of A', and V' = 1 iff signed(A) + signed(M) + C is outside
\* -128..127.
C22_Adc ==
    (call.name = "ADC") =>
        LET A == call.pre.accumulator
            M == call.value
            C == Bit(call.pre.status_register, Carry)
            S == Signed(A) + Signed(M) + C
        IN  /\ cpu.accumulator = (A + M + C) % 256
            /\ Bit(cpu.status_register, Carry) = Flag(A + M + C > 255)
            /\ ZeroNegativeOf(cpu, (A + M + C) % 256)
            /\ Bit(cpu.status_register, Overflow) = Flag(S < -128 \/ S > 127)

\* A = $50, C = 1, ADC of $30 in RAM: A = $81, C = 0, Z = 0, N = 1, V = 1
C22_Witness ==
    /\ call.name = "ADC"
    /\ call.addr = 16
    /\ call.pre.accumulator = 80
    /\ call.value = 48
    /\ call.pre.status_register = 37
    /\ cpu.accumulator = 129
    /\ cpu.status_register = 228

\* C23: SBC on accumulator A, operand M and carry-in C leaves
\* A' = (A - M - (1 - C)) mod 256, C' = 1 iff A >= M + (1 - C), Z' and N'
\* from A', and V' = 1 iff signed(A) - signed(M) - (1 - C) is outside
\* -128..127.
C23_Sbc ==
    (call.name = "SBC") =>
        LET A == call.pre.accumulator
            M == call.value
            C == Bit(call.pre.status_register, Carry)
            S == Signed(A) - Signed(M) - (1 - C)
        IN  /\ cpu.accumulator = (A - M - (1 - C) + 512) % 256
            /\ Bit(cpu.status_register, Carry) = Flag(A >= M + (1 - C))
            /\ ZeroNegativeOf(cpu, (A - M - (1 - C) + 512) % 256)
            /\ Bit(cpu.status_register, Overflow) = Flag(S < -128 \/ S > 127)

\* A = $80, C = 1, SBC of $01 in RAM: A = $7F, C = 1, Z = 0, N = 0, V = 1
C23_Witness ==
    /\ call.name = "SBC"
    /\ call.addr = 16
    /\ call.pre.accumulator = 128
    /\ call.value = 1
    /\ call.pre.status_register = 37
    /\ cpu.accumulator = 127
    /\ cpu.status_register = 101

\* the CPU with bit 3 of P inverted
FlipDecimal(c) == [c EXCEPT !.status_register = BitXor(c.status_register, 8)]

\* two CPUs agree on A and on C, Z, N and V
SameArithmetic(c, d) ==
    /\ c.accumulator = d.accumulator
    /\ \A f \in {Carry, Zero, Negative, Overflow} :
            Bit(c.status_register, f) = Bit(d.status_register, f)

\* C24: ADC, SBC, ISC and RRA called on two CPUs that differ only in bit 3
\* of P give the same A, C, Z, N and V, indeed the same CPU but for that
\* bit, and each leaves D as it found it.
C24_DecimalInert ==
    (call.name \in {"ADC", "SBC", "ISC", "RRA"}) =>
        /\ Bit(cpu.status_register, DecimalMode) = Bit(call.pre.status_register, DecimalMode)
        /\ SameArithmetic(cpu, CpuOf(HandlerOf(call.name, Ctx(FlipDecimal(call.pre)),
                                               call.value, call.addr).ctx))
        /\ FlipDecimal(cpu) = CpuOf(HandlerOf(call.name, Ctx(FlipDecimal(call.pre)),
                                              call.value, call.addr).ctx)

\* ADC of $01 to A = $0F with D set and C clear: A = $10, the binary sum
C24_Witness ==
    /\ call.name = "ADC"
    /\ call.pre.accumulator = 15
    /\ call.value = 1
    /\ call.pre.status_register = 44
    /\ cpu.accumulator = 16
    /\ cpu.status_register = 44

----------------------------------------------------------------------------
(* Properties of the cycle accounting and of the Indirect mode.            *)

\* the modes whose resolution can report a page cross
PageCrossModes == {"AbsoluteX", "AbsoluteY", "IndirectY"}

\* section 4.5's read family: the mnemonics of the loop plus the unofficial
\* LAX and the NOP-read variants
SPEC_READ_FAMILY == READ_FAMILY \cup {"LAX", "NOP"}

\* the table entry section 4.4 requires for LAX absolute,Y ($BF)
LAX_ABSOLUTE_Y == [opcode |-> 191, name |-> "LAX", addressing_mode |-> "AbsoluteY",
                   bytes |-> 3, cycles |-> 4]

\* the opcode table with that entry added
RequiredEntry(opcode) == IF opcode = 191 THEN LAX_ABSOLUTE_Y ELSE OPERAND_MAP[opcode]

\* an instruction of the given opcodes in a page-crossing mode, fetched with
\* no overflow or PPU fault, costs its base cycles, plus one when the page
\* is crossed and its mnemonic is in the given family
PageCrossCycleIn(opcodes, family) ==
    (/\ last.pc # None
     /\ fault \notin {ADD_OVERFLOW, PPU_TODO}
     /\ last.opcode \in opcodes
     /\ RequiredEntry(last.opcode).addressing_mode \in PageCrossModes) =>
        cpu.cycles = last.pre.cycles + RequiredEntry(last.opcode).cycles
            + IF /\ get_operand_address(Pre, RequiredEntry(last.opcode).addressing_mode,
                                        (last.pc + 1) % 65536).page_crossed
                 /\ RequiredEntry(last.opcode).name \in family
              THEN 1 ELSE 0

\* C25: an instruction in AbsoluteX, AbsoluteY or IndirectY mode costs its
\* base cycles plus exactly one when the page is crossed and its mnemonic is
\* in the read family, LAX and the NOP-read variants included, and its base
\* cycles otherwise (stores and read-modify-writes in particular).
C25_PageCrossCycle ==
    PageCrossCycleIn((DOMAIN OPERAND_MAP) \cup {191}, SPEC_READ_FAMILY)

\* C26: a branch at p that the loop executed cost 2 cycles when not taken,
\* 3 when taken to a target in the page of p + 2, and 4 when taken to a
\* target in another page.
C26_BranchCycles ==
    (Executed /\ last.opcode \in BranchOpcodes) =>
        cpu.cycles - last.pre.cycles =
            IF ~BranchHolds(last.opcode, last.pre.status_register) THEN 2
            ELSE IF ((last.pc + 2 + Signed(OperandByte) + 65536) % 65536) \div 256
                    = ((last.pc + 2) % 65536) \div 256
                 THEN 3 ELSE 4

\* BEQ +$10 at $80FD with Z set: PC = $810F, 4 cycles
C26_Witness ==
    /\ Executed
    /\ last.opcode = 240
    /\ last.pc = 33021
    /\ OperandByte = 16
    /\ Bit(last.pre.status_register, Zero) = 1
    /\ cpu.program_counter = 33039
    /\ cpu.cycles = last.pre.cycles + 4

\* the pointer of a JMP (Indirect): the word after the opcode
IndirectPointer == read_u8(Pre, (last.pc + 1) % 65536) + 256 * read_u8(Pre, (last.pc + 2) % 65536)

\* C27: for JMP (Indirect) with pointer ptr the resolver returns the address
\* with low byte read(ptr) and high byte read(ptr & $FF00) when the low byte
\* of ptr is $FF, read(ptr + 1) otherwise, and page_crossed = false; PC is
\* that address (unless it is the JMP's own address, see C8) and the
\* instruction costs its base cycles.
C27_IndirectPageBug ==
    (Executed /\ last.opcode = 108) =>
        LET ptr == IndirectPointer
            high == IF ptr % 256 = 255 THEN ptr - 255 ELSE ptr + 1
            target == read_u8(Pre, ptr) + 256 * read_u8(Pre, high)
        IN  /\ get_operand_address(Pre, "Indirect", (last.pc + 1) % 65536)
                    = Resolved(target, FALSE, NoFault)
            /\ target # last.pc => cpu.program_counter = target
            /\ cpu.cycles = last.pre.cycles + OPERAND_MAP[108].cycles

\* JMP ($91FF) with $CD at $91FF, $AB at $9100 and $99 at $9200: PC = $ABCD
C27_Witness ==
    /\ Executed
    /\ last.opcode = 108
    /\ IndirectPointer = 37375
    /\ read_u8(Pre, 37375) = 205
    /\ read_u8(Pre, 37120) = 171
    /\ read_u8(Pre, 37376) = 153
    /\ cpu.program_counter = 43981

----------------------------------------------------------------------------
(* Properties of the increments, the composites and the shifts.            *)

\* the byte a handler left at its operand address, when that is in RAM
LeftInRam(r) == call.addr <= 8191 => read_u8(Ctx(cpu), call.addr) = r

\* C28: INX, INY and DEY replace their register with register + 1 or
\* register - 1 mod 256 and set Z and N from the new value; INC and DEC do
\* the same to the byte at the effective address; INY followed by DEY leaves
\* Y as it was.
C28_IncDec ==
    /\ (call.name = "INX") =>
            /\ cpu.x_register = (call.pre.x_register + 1) % 256
            /\ ZeroNegativeOf(cpu, cpu.x_register)
    /\ (call.name = "INY") =>
            /\ cpu.y_register = (call.pre.y_register + 1) % 256
            /\ ZeroNegativeOf(cpu, cpu.y_register)
    /\ (call.name = "DEY") =>
            /\ cpu.y_register = (call.pre.y_register + 255) % 256
            /\ ZeroNegativeOf(cpu, cpu.y_register)
    /\ (call.name = "INC") =>
            /\ LeftInRam((call.value + 1) % 256)
            /\ ZeroNegativeOf(cpu, (call.value + 1) % 256)
    /\ (call.name = "DEC") =>
            /\ LeftInRam((call.value + 255) % 256)
            /\ ZeroNegativeOf(cpu, (call.value + 255) % 256)
    /\ (call.count = 2 /\ prev.name = "INY" /\ call.name = "DEY") =>
            cpu.y_register = prev.pre.y_register

\* the official constituents of a composite, in order
Constituents(name) ==
    CASE name = "LAX" -> <<"LDA", "TAX">>
      [] name = "DCP" -> <<"DEC", "CMP">>
      [] name = "ISC" -> <<"INC", "SBC">>
      [] name = "SLO" -> <<"ASL", "ORA">>
      [] name = "RLA" -> <<"ROL", "AND">>
      [] name = "SRE" -> <<"LSR", "EOR">>

\* an official instruction run on the effective address a: its operand is
\* the byte read there
Then(name, x, a) == Handler(name, x, read_u8(x, a), a).ctx

\* the two constituents in sequence on the address a
InSequence(names, c, a) == CpuOf(Then(names[2], Then(names[1], Ctx(c), a), a))

\* C29: a composite called on any effective address leaves the whole CPU,
\* so A, X, the flags and memory, as its two constituents run in sequence
\* on that address leave it.
C29_CompositesAnyAddress ==
    (call.name \in {"LAX", "DCP", "ISC", "SLO", "RLA", "SRE"}) =>
        cpu = InSequence(Constituents(call.name), call.pre, call.addr)

\* C29, amended: the same for an effective address in internal RAM
\* ($0000..$1FFF), where the first constituent's write can be read back.
C29_Composites ==
    (call.name \in {"LAX", "DCP", "ISC", "SLO", "RLA", "SRE"} /\ call.addr <= 8191) =>
        cpu = InSequence(Constituents(call.name), call.pre, call.addr)

\* ISC on $FF at $0010 with A = $80 and C set: memory $00, A = $80 - $00
C29_Witness ==
    /\ call.name = "ISC"
    /\ call.addr = 16
    /\ call.value = 255
    /\ call.pre.accumulator = 128
    /\ call.pre.status_register = 37
    /\ read_u8(Ctx(cpu), 16) = 0
    /\ cpu.accumulator = 128
    /\ cpu = InSequence(<<"INC", "SBC">>, call.pre, 16)

\* the result byte and the carry of a shift of v with carry-in c
ShiftResult(name, v, c) ==
    CASE name = "ASL" -> (v * 2) % 256
      [] name = "LSR" -> v \div 2
      [] name = "ROL" -> (v * 2 + c) % 256
ShiftCarry(name, v) == IF name = "LSR" THEN v % 2 ELSE v \div 128

\* what a shift with result r left behind: C, Z and N, and r in A when
\* called on the accumulator, r written to the effective address and A as
\* before otherwise
Shifted(r) ==
    /\ Bit(cpu.status_register, Carry) = ShiftCarry(call.name, call.value)
    /\ ZeroNegativeOf(cpu, r)
    /\ IF call.addr = None
       THEN /\ call.value = call.pre.accumulator
            /\ cpu.accumulator = r
            /\ cpu.internal_ram = call.pre.internal_ram
       ELSE /\ cpu.accumulator = call.pre.accumulator
            /\ cpu.internal_ram = write_u8(Ctx(call.pre), call.addr, r).internal_ram
            /\ LeftInRam(r)

\* C30: ASL yields (v << 1) mod 256 with C = bit 7 of v, LSR v >> 1 with
\* C = bit 0 of v, ROL ((v << 1) | old C) mod 256 with C = bit 7 of v; each
\* sets Z and N from the result, writes it to A when called on the
\* accumulator, and to the effective address, leaving A, otherwise.
C30_Shifts ==
    (call.name \in {"ASL", "LSR", "ROL"}) =>
        Shifted(ShiftResult(call.name, call.value,
                            Bit(call.pre.status_register, Carry)))

\* ROL of $80 at $0010 with C set and A = $FF: memory $01, C = 1, A = $FF
C30_Witness ==
    /\ call.name = "ROL"
    /\ call.addr = 16
    /\ call.value = 128
    /\ call.pre.accumulator = 255
    /\ call.pre.status_register = 37
    /\ read_u8(Ctx(cpu), 16) = 1
    /\ cpu.accumulator = 255
    /\ cpu.status_register = 37

----------------------------------------------------------------------------
(* Properties of the stores and of the unofficial stores.                  *)

\* two CPUs hold the same RAM but for the cell of address a
SameRamBut(c, d, a) ==
    \A i \in ((DOMAIN c.internal_ram) \cup (DOMAIN d.internal_ram)) \ {a % 2048} :
        RamAt(c.internal_ram, i) = RamAt(d.internal_ram, i)

\* the CPU without its RAM
Registers(c) == [f \in CpuFields \ {"internal_ram"} |-> c[f]]

\* C31: STA, STY and SAX (handle_aax) change nothing but the byte at the
\* effective address, and TXS nothing but SP: P, A, X and Y are as before.
C31_StoresKeepFlags ==
    /\ (call.name \in {"STA", "STY", "AAX"}) =>
            /\ Registers(cpu) = Registers(call.pre)
            /\ SameRamBut(cpu, call.pre, call.addr)
            /\ LeftInRam(CASE call.name = "STA" -> call.pre.accumulator
                           [] call.name = "STY" -> call.pre.y_register
                           [] call.name = "AAX" ->
                                BitAnd(call.pre.accumulator, call.pre.x_register))
    /\ (call.name = "TXS") =>
            /\ cpu.stack_pointer = call.pre.x_register
            /\ \A f \in CpuFields \ {"stack_pointer"} : cpu[f] = call.pre[f]

\* STA of A = $80 to $0010 with every flag but C set: the byte is stored and
\* P is as before, Z and N included
C31_Witness ==
    /\ call.name = "STA"
    /\ call.addr = 16
    /\ call.pre.accumulator = 128
    /\ call.pre.status_register = 238
    /\ read_u8(Ctx(call.pre), 16) = 0
    /\ read_u8(Ctx(cpu), 16) = 128
    /\ cpu.status_register = 238

\* the operand the resolver was given, and a byte of the memory it read
ResolvedOperand == read_u8(Ctx(call.pre), call.addr)
ResolverByte(a) == read_u8(Ctx(call.pre), a)

\* C33: ZeroPageX and ZeroPageY resolve to (operand + index) mod 256, and
\* IndirectX and IndirectY read the pointer's high byte at (zp + 1) mod 256:
\* a pointer at $FF has its high byte at $0000.
C33_ZeroPageWrap ==
    /\ (call.name = "ZeroPageX") =>
            call.result.addr = (ResolvedOperand + call.pre.x_register) % 256
    /\ (call.name = "ZeroPageY") =>
            call.result.addr = (ResolvedOperand + call.pre.y_register) % 256
    /\ (call.name = "IndirectX") =>
            LET zp == (ResolvedOperand + call.pre.x_register) % 256
            IN  call.result.addr = ResolverByte(zp) + 256 * ResolverByte((zp + 1) % 256)
    /\ (call.name = "IndirectY") =>
            LET zp == ResolvedOperand
            IN  call.result.addr =
                    (ResolverByte(zp) + 256 * ResolverByte((zp + 1) % 256) + call.pre.y_register) % 65536
    /\ (call.name \in {"ZeroPageX", "ZeroPageY", "IndirectX", "IndirectY"}) =>
            /\ call.result.panic = NoFault
            /\ cpu = call.pre

\* IndirectX with operand $80 and X = $7F: the pointer is at $FF, $34 there,
\* $03 at $0000 and $05 at $0100; the address is $0334
C33_Witness ==
    /\ call.name = "IndirectX"
    /\ ResolvedOperand = 128
    /\ call.pre.x_register = 127
    /\ ResolverByte(255) = 52
    /\ ResolverByte(0) = 3
    /\ ResolverByte(256) = 5
    /\ call.result.addr = 820

\* the byte RRA rotates its operand into, and the sum it leaves in A
RraRotated == (call.value \div 2) + 128 * Bit(call.pre.status_register, Carry)
RraSum == call.pre.accumulator + RraRotated + (call.value % 2)
RraSignedSum == Signed(call.pre.accumulator) + Signed(RraRotated) + (call.value % 2)

\* C34: RRA rotates the memory byte right through the old carry, writes it
\* back, and adds it to A with bit 0 of the original byte as carry-in, not
\* the carry that held before; C and V are those of the addition.
C34_RraCarryIn ==
    (call.name = "RRA") =>
        /\ LeftInRam(RraRotated)
        /\ cpu.internal_ram = write_u8(Ctx(call.pre), call.addr, RraRotated).internal_ram
        /\ cpu.accumulator = RraSum % 256
        /\ Bit(cpu.status_register, Carry) = Flag(RraSum > 255)
        /\ Bit(cpu.status_register, Overflow) = Flag(RraSignedSum \notin -128..127)
        /\ ZeroNegativeOf(cpu, RraSum % 256)

\* RRA of $01 at $0010 with A = $00 and C clear: memory $00, and A = $01 from
\* the carry the rotation shifted out; RRA of $80 with C set adds no carry
C34_Witness ==
    /\ call.name = "RRA"
    /\ call.addr = 16
    /\ call.value = 1
    /\ call.pre.accumulator = 0
    /\ call.pre.status_register = 36
    /\ read_u8(Ctx(cpu), 16) = 0
    /\ cpu.accumulator = 1
    /\ Bit(cpu.status_register, Carry) = 0

\* the 16-bit argument the resolver was given before an unofficial store,
\* its high byte plus one, and the register the store ANDs with it
StoreArgument == read_u16(Ctx(prev.pre), prev.addr)
ArgumentHighPlusOne == ((StoreArgument \div 256) + 1) % 256
StoredRegister ==
    CASE call.name = "SXA" -> call.pre.x_register
      [] call.name = "SYA" -> call.pre.y_register
      [] call.name = "XAS" -> BitAnd(call.pre.accumulator, call.pre.x_register)

\* C35: SXA stores X & (H + 1), SYA Y & (H + 1) and XAS, after SP = A & X,
\* SP & (H + 1) at the effective address, H being the high byte of the
\* un-indexed 16-bit argument; no flag changes.
C35_IndexedStores ==
    (call.name \in {"SXA", "SYA", "XAS"} /\ prev.name \in {"AbsoluteX", "AbsoluteY"}) =>
        /\ call.addr = prev.result.addr
        /\ LeftInRam(BitAnd(StoredRegister, ArgumentHighPlusOne))
        /\ cpu.status_register = call.pre.status_register
        /\ (call.name = "XAS") => cpu.stack_pointer = StoredRegister

\* C36: after every instruction the run loop executed, PC differs from the
\* value it had before it: a jump, return or taken branch to the
\* instruction's own address is advanced past like any other.
C36_PcMoves == Executed => cpu.program_counter # last.pc

\* JMP $8000 at $8000: the handler leaves PC at $8000 and the loop adds 3
C36_Witness ==
    /\ Executed
    /\ last.opcode = 76
    /\ last.pc = 32768
    /\ read_u16(Pre, 32769) = 32768
    /\ cpu.program_counter = 32771

\* the table entry of the last instruction, the address the resolver gives
\* for it, and whether the loop got as far as reading that address
LastEntry == OPERAND_MAP[last.opcode]
LastResolved ==
    get_operand_address(Pre, LastEntry.addressing_mode, (last.pc + 1) % 65536)
ReachedOperandRead ==
    /\ last.pc # None
    /\ last.opcode \in DOMAIN OPERAND_MAP
    /\ LastEntry.addressing_mode \notin {"Implicit", "Accumulator"}
    /\ ~(last.pc + 1 > 65535 /\ overflow_checks)
    /\ LastResolved.panic = NoFault

\* the iteration from the handler on, the handler given the byte v
FromHandler(v) ==
    Account(Handler(LastEntry.name, PageCrossPenalty(Pre, LastResolved, LastEntry),
                    v, LastResolved.addr),
            LastEntry, last.pc)
\* the CPU, and the fault of the last instruction, are those of x
EndsAs(x) ==
    /\ cpu = CpuOf(x)
    /\ last.panicked = Panicked(x)
    /\ last.panicked => fault = x.panic

\* C37: for every instruction whose mode is neither Implicit nor
\* Accumulator, stores, JMP and JSR included, the loop reads the resolved
\* effective address before the handler runs: where that read faults the
\* handler has done nothing (no write, no push, PC in place), and elsewhere
\* the handler is given the byte that was at the address before it ran.
C37_ReadBeforeHandler ==
    ReachedOperandRead =>
        IF BusReadPanics(LastResolved.addr)
        THEN /\ last.panicked
             /\ fault = PPU_TODO
             /\ \A f \in CpuFields \ {"cycles"} : cpu[f] = last.pre[f]
        ELSE EndsAs(FromHandler(read_u8(Pre, LastResolved.addr)))

\* JSR $2000: the read of $2000 faults before handle_jsr pushed anything
C37_Witness ==
    /\ ReachedOperandRead
    /\ last.opcode = 32
    /\ LastResolved.addr = 8192
    /\ last.panicked
    /\ fault = PPU_TODO
    /\ cpu.stack_pointer = last.pre.stack_pointer
    /\ cpu.program_counter = last.pc

\* the loop run with the no-op callback for n instructions from the CPU c
RECURSIVE RunWithout(_, _)
StepWithout(x) == IF Panicked(x) THEN x ELSE Iteration(x)
RunWithout(c, n) == IF n = 0 THEN Ctx(c) ELSE StepWithout(RunWithout(c, n - 1))

\* C38: trace is read-only: when it returns, registers, flags, cycles and
\* memory are as before the call, so the loop run with trace executes the
\* instructions the loop run without it executes.
C38_TraceReadOnly ==
    (callback = "trace") =>
        /\ (phase = "fetch") => cpu = seen
        /\ (phase \in {"callback", "fetch"} \/ last.panicked) =>
                EndsAs(RunWithout(start, instructions))

\* trace returned for the second time, after one instruction that changed
\* the CPU
C38_Witness ==
    /\ callback = "trace"
    /\ phase = "fetch"
    /\ callbacks = 2
    /\ instructions = 1
    /\ cpu = seen
    /\ cpu # start
    /\ cpu = CpuOf(RunWithout(start, 1))

\* the byte length that goes with an addressing mode
LengthOfMode(mode) ==
    CASE mode \in {"Implicit", "Accumulator"} -> 1
      [] mode \in {"Immediate", "ZeroPage", "ZeroPageX", "ZeroPageY",
                   "IndirectX", "IndirectY", "Relative"} -> 2
      [] mode \in {"Absolute", "AbsoluteX", "AbsoluteY", "Indirect"} -> 3

UnexpectedMode ==
    {"Unexpected addressing mode {:?} for 2 byte instruction",
     "Unexpected addressing mode {:?} for 3 byte instruction"}

\* C39: every entry of the opcode table has the byte length of its mode
\* and its key in its opcode field, so trace has an arm for the mode of
\* every 2 byte and 3 byte entry and never ends in its "Unexpected
\* addressing mode" panic.
C39_TableLengths ==
    /\ \A k \in DOMAIN OPERAND_MAP :
         /\ OPERAND_MAP[k].opcode = k
         /\ OPERAND_MAP[k].bytes = LengthOfMode(OPERAND_MAP[k].addressing_mode)
         /\ (OPERAND_MAP[k].bytes = 2) => OPERAND_MAP[k].addressing_mode \in TwoByteModes
         /\ (OPERAND_MAP[k].bytes = 3) => OPERAND_MAP[k].addressing_mode \in ThreeByteModes
    /\ fault.msg \notin UnexpectedMode
    /\ TracePanic(cpu).msg \notin UnexpectedMode

\* trace returned its line for JMP ($91FF), a 3 byte entry in Indirect mode
C39_Witness ==
    /\ callback = "trace"
    /\ phase = "fetch"
    /\ fault = NoFault
    /\ read_u8(Ctx(seen), seen.program_counter) = 108
    /\ OPERAND_MAP[108].bytes = 3
    /\ OPERAND_MAP[108].addressing_mode = "Indirect"
    /\ read_u16(Ctx(seen), (seen.program_counter + 1) % 65536) = 37375

\* the opcode the callback found at PC
TracedOpcode == read_u8(Ctx(seen), seen.program_counter)

\* C32: the run with the trace callback yields a line for every instruction
\* of nestest, the required unofficial opcodes of section 4.4 among them:
\* trace never ends in its unsupported-opcode panic on one of them.
C32_NestestTrace ==
    (/\ callback = "trace"
     /\ callbacks > 0
     /\ ~BusReadPanics(seen.program_counter)
     /\ TracedOpcode \in (DOMAIN OPERAND_MAP) \cup RequiredUnofficial) =>
        fault.msg # "Opcode {:x} is not supported"
====
